---- MODULE Spec2Model ----
(***************************************************************************)
(* GpuIndex (faiss/gpu/GpuIndex.cu): the host-side orchestration of add    *)
(* and search: residency of the pointers handed to the implementation,     *)
(* tiling of oversized batches, and the overlapped (pinned memory) paging  *)
(* of host-resident queries over the copy stream and the default stream.   *)
(*                                                                         *)
(* Data are tracked by row: a buffer is a sequence of the 0-based indices  *)
(* of the caller's rows it holds, so that a slice taken at the wrong       *)
(* offset or a buffer read too early shows in the rows the implementation  *)
(* sees.  The result the implementation computes for query row q is q.     *)
(***************************************************************************)
EXTENDS Integers, Sequences, FiniteSets, TLC

\* ---------------------------------------------------------------- bounds
\* Largest batch of one add or search call.
MaxN == 4
\* Cap of the stored vector count (adds are not issued beyond it).
MaxTotal == 5

\* ------------------------------------------------------ program constants
kMinPageSize == 268435456
kNonPinnedPageSize == 268435456
kAddPageSize == 268435456
kAddVecSize == 524288
kSearchVecSize == 32768

\* Dimensionalities of the indexes considered: one vector of 2^26 floats is
\* 256 MiB, so the paging thresholds are met by batches of a few rows.
Dims == {67108864}

\* Neighbour counts requested by the calls considered.
Ks == {-1, 0, 2, 2049}

\* Pinned memory the resource pool may report: (pointer present, capacity).
PinnedAllocs ==
    { [first |-> FALSE, second |-> 0],
      [first |-> TRUE, second |-> 134217728],
      [first |-> TRUE, second |-> 536870912] }

NumericTypes == {"Float32", "Float16", "Int8", "Other"}
SupportedTypes == {"Float32", "Float16", "Int8"}

\* A cell of an output buffer that no result was written to.
NoRes == -1

VARIABLES
    \* Index metadata and the paging threshold
    d, ntotal, is_trained, minPagedSize_,
    \* GpuIndexConfig, with the compute capability of its device
    config_,
    \* the call in progress or last completed, and how it ended
    call, pc, result,
    \* invocations of addImpl_ / searchImpl_, in execution order
    implLog,
    \* device allocations and generated identifiers of the call
    nAlloc, generatedIds,
    \* device-side output regions and the caller's host buffers
    devDistances, devLabels, hostDistances, hostLabels,
    \* pairs copied back to host buffers by fromDevice
    copiedBack,
    \* searchFromCpuPaged_'s pipeline: cursors, buffers, events, streams
    cur1, cur2, cur3, cur1BufIndex, cur2BufIndex, cur3BufIndex,
    bufPinned, bufGpus, eventPinnedCopyDone, eventGpuExecuteDone,
    firedEvents, copyStream, defaultStream, stage, issued,
    \* the iterations of the pipeline's loop entered so far, and the stages
    \* the host has run: page start, rows, buffer index and bytes moved
    iter, pipeLog,
    \* the rest of the index metadata: metric and its argument
    metric_type, metric_arg,
    \* a host-side faiss::Index, as copyFrom and copyTo see it
    mirror,
    \* the value last passed to setMinPagingSize, the value returned by
    \* getMinPagingSize, and the invocations of reconstruct_batch
    lastSetSize, retSize, reconLog,
    \* what the caller kept of its last completed search
    kept

indexVars == <<d, ntotal, is_trained, minPagedSize_, config_>>
callVars == <<call, pc, result, implLog, nAlloc, generatedIds>>
outVars == <<devDistances, devLabels, hostDistances, hostLabels, copiedBack>>
pipeVars ==
    <<cur1, cur2, cur3, cur1BufIndex, cur2BufIndex, cur3BufIndex,
      bufPinned, bufGpus, eventPinnedCopyDone, eventGpuExecuteDone,
      firedEvents, copyStream, defaultStream, stage, issued, iter, pipeLog>>
opsVars ==
    <<metric_type, metric_arg, mirror, lastSetSize, retSize, reconLog, kept>>
vars == <<indexVars, callVars, outVars, pipeVars, opsVars>>

\* ---------------------------------------------------------------- helpers
Min(a, b) == IF a < b THEN a ELSE b
Max(a, b) == IF a > b THEN a ELSE b

\* The first m elements of s, and s without its first m elements.
Take(s, m) == SubSeq(s, 1, Min(m, Len(s)))
Drop(s, m) == SubSeq(s, m + 1, Len(s))

\* The caller's rows 0 .. m-1.
Rows(m) == [i \in 1 .. m |-> i - 1]

\* An output buffer of m rows, nothing written.
Blank(m) == [i \in 1 .. m |-> NoRes]

\* Pointers: where the memory lives and the rows found from the pointer on.
NullPtr == [loc |-> "null", rows |-> <<>>]
HostPtr(rows) == [loc |-> "host", rows |-> rows]
DevicePtr(rows) == [loc |-> "device", rows |-> rows]

\* p + i * d for a pointer to rows of d elements.
PtrAdd(p, i) == [p EXCEPT !.rows = Drop(p.rows, i)]

\* getDeviceForAddress(p) == -1
IsHostAddress(p) == p.loc = "host"

get_numeric_type_size(t) ==
    CASE t = "Float32" -> 4
      [] t = "Float16" -> 2
      [] t = "Int8" -> 1
      [] OTHER -> 1

log2(v) == IF v <= 1 THEN 0 ELSE CHOOSE p \in 1 .. 31 : 2 ^ p <= v /\ v < 2 ^ (p + 1)
isPowerOf2(v) == v > 0 /\ 2 ^ log2(v) = v
nextHighestPowerOf2(v) == IF isPowerOf2(v) THEN 2 * v ELSE 2 ^ (log2(v) + 1)

\* should_use_cuvs(config_)
should_use_cuvs(c) == IF c.major < 7 THEN FALSE ELSE c.use_cuvs

getMaxKSelection(use_cuvs) == IF use_cuvs THEN 16384 ELSE 2048

\* validateKSelect(k, use_cuvs) passes
validateKSelect(k, use_cuvs) == k > 0 /\ k <= getMaxKSelection(use_cuvs)

\* toDeviceTemporary(p, {m, ...}): the pointer itself when it is on the
\* device, otherwise a fresh device buffer holding a copy of the m rows.
toDeviceTemporary(p, m) ==
    IF p.loc = "device" THEN p ELSE DevicePtr(Take(p.rows, m))

\* Whether toDeviceTemporary(p, ...) reserves device memory.
NeedsAlloc(p) == IF p.loc = "device" THEN 0 ELSE 1


\* ------------------------------------------------------------ call records
\* An event of the pipeline: the page whose copy or execution it marks.
NoEvent == [kind |-> "none", page |-> -1]

\* What the host passes to one addImpl_ / searchImpl_ call: where each
\* pointer lives, the output offset (in rows) and whether the call returned.
Issue(op, m, x, ids, dist, lab, off, k, ok) ==
    [op |-> op, n |-> m, x |-> x, ids |-> ids, dist |-> dist, lab |-> lab,
     off |-> off, k |-> k, ok |-> ok]

\* What one executed addImpl_ / searchImpl_ call read and where it wrote.
Exec(op, m, rows, ids, distOff, labOff, k) ==
    [op |-> op, n |-> m, rows |-> rows, ids |-> ids, distOff |-> distOff,
     labOff |-> labOff, k |-> k]

NoCall ==
    [op |-> "none", n |-> 0, numeric_type |-> "Float32", k |-> 0,
     x |-> "null", ids |-> "null", distances |-> "null", labels |-> "null",
     pinnedAlloc |-> [first |-> FALSE, second |-> 0], fail |-> 0,
     path |-> "none", requiresIDs |-> FALSE, ntotal0 |-> 0]

\* The state of the pipeline's locals outside of it.
PipeIdle ==
    /\ cur1' = 0 /\ cur2' = -1 /\ cur3' = -1
    /\ cur1BufIndex' = 0 /\ cur2BufIndex' = 0 /\ cur3BufIndex' = 0
    /\ bufPinned' = <<>> /\ bufGpus' = <<>>
    /\ eventPinnedCopyDone' = <<NoEvent, NoEvent>>
    /\ eventGpuExecuteDone' = <<NoEvent, NoEvent>>
    /\ firedEvents' = {} /\ copyStream' = <<>> /\ defaultStream' = <<>>
    /\ stage' = 0
    /\ iter' = 0 /\ pipeLog' = <<>>

\* The caller's output buffers as a call finds them: m rows each, nothing
\* written; a device-resident buffer is the device-side region itself.
CallerOutputs(c) ==
    /\ devDistances' = IF c.distances = "device" THEN Blank(c.n) ELSE <<>>
    /\ devLabels' = IF c.labels = "device" THEN Blank(c.n) ELSE <<>>
    /\ hostDistances' = IF c.distances = "host" THEN Blank(c.n) ELSE <<>>
    /\ hostLabels' = IF c.labels = "host" THEN Blank(c.n) ELSE <<>>
    /\ copiedBack' = 0

\* A call that ends, with r, before it passes anything to the
\* implementation, having made allocs device allocations.
EndsEarly(c, r, allocs) ==
    /\ call' = c /\ pc' = "done" /\ result' = r
    /\ implLog' = <<>> /\ issued' = <<>> /\ nAlloc' = allocs
    /\ generatedIds' = <<>>
    /\ CallerOutputs(c)
    /\ PipeIdle

\* The host issues a call only from outside any other call.
CanCall == pc = "idle"

\* --------------------------------------------------------------------- add
\* Identifiers the caller passes with a batch of m vectors.
UserIds(m) == [i \in 1 .. m |-> 100 + i]

\* Variant: identifiers are numbered from zero.
GenerateIds_FromZero(m, idsGiven, requiresIDs) ==
    IF ~idsGiven /\ requiresIDs THEN [i \in 1 .. m |-> i - 1] ELSE <<>>

\* add_with_ids: generatedIds[i] = ntotal + i when none were passed and the
\* implementation needs them.
GenerateIds(m, idsGiven, requiresIDs) ==
    IF ~idsGiven /\ requiresIDs THEN [i \in 1 .. m |-> ntotal + (i - 1)] ELSE <<>>

\* ids ? ids : generatedIds.data()
IdsPointer(m, idsKind, gen) ==
    IF idsKind # "null" THEN [loc |-> idsKind, rows |-> UserIds(m)]
    ELSE IF gen # <<>> THEN HostPtr(gen)
    ELSE NullPtr

\* Variant: only the size in bytes decides.
AddIsTiled_NoVecCount(m, s) ==
    /\ ~should_use_cuvs(config_)
    /\ m * d * s > kAddPageSize

\* addPaged_: is the batch tiled?
AddIsTiled(m, s) ==
    /\ ~should_use_cuvs(config_)
    /\ (m * d * s > kAddPageSize \/ m > kAddVecSize)

\* Variant: the tile is not capped at kSearchVecSize vectors.
AddTileSize_NoVecCap(m, s) == Min(m, Max(kAddPageSize \div (d * s), 1))

\* addPaged_: the tile size of a tiled batch.
AddTileSize(m, s) ==
    LET maxNumVecsForPageSize == Max(kAddPageSize \div (d * s), 1)
    IN  Min(Min(m, maxNumVecsForPageSize), kSearchVecSize)

\* Variant: every tile is passed the identifiers from the start of the batch.
AddTile_IdsNotAdvanced(i, curNum, x, ids) ==
    [n |-> curNum, i |-> i, x |-> PtrAdd(x, i), ids |-> ids]

\* addPaged_: the addPage_ arguments of the tile that starts at vector i.
AddTile(i, curNum, x, ids) ==
    [n |-> curNum, i |-> i, x |-> PtrAdd(x, i),
     ids |-> IF ids.loc # "null" THEN PtrAdd(ids, i) ELSE NullPtr]

\* Variant: the last tile is not cut to the vectors that remain.
AddTileNum_Uncut(tileSize, m, i) == tileSize

\* addPaged_: the tile starting at vector i holds this many vectors.
AddTileNum(tileSize, m, i) == Min(tileSize, m - i)

RECURSIVE AddTiles(_, _, _, _, _)
AddTiles(i, m, tileSize, x, ids) ==
    IF i >= m THEN <<>>
    ELSE <<AddTile(i, AddTileNum(tileSize, m, i), x, ids)>>
             \o AddTiles(i + tileSize, m, tileSize, x, ids)

\* addPaged_: the addPage_ calls made for a batch of a supported type.
addPaged_(m, x, t, ids) ==
    IF m <= 0 THEN <<>>
    ELSE IF AddIsTiled(m, get_numeric_type_size(t))
    THEN AddTiles(0, m, AddTileSize(m, get_numeric_type_size(t)), x, ids)
    ELSE <<[n |-> m, i |-> 0, x |-> x, ids |-> ids]>>

\* addPage_: the pointers handed to addImpl_ for one page.
addPage_Vecs(page) == toDeviceTemporary(page.x, page.n)
\* Variant: the identifiers are passed on where the caller has them.
addPage_Indices_AsPassed(page) ==
    IF page.ids.loc # "null" THEN page.ids ELSE NullPtr

addPage_Indices(page) ==
    IF page.ids.loc # "null" THEN toDeviceTemporary(page.ids, page.n) ELSE NullPtr

addPage_Issue(page, ok) ==
    Issue("add", page.n, addPage_Vecs(page).loc, addPage_Indices(page).loc,
          "null", "null", 0, 0, ok)

addPage_Exec(page) ==
    Exec("add", page.n, Take(addPage_Vecs(page).rows, page.n),
         Take(addPage_Indices(page).rows, page.n), 0, 0, 0)

\* Device allocations of one addPage_.
addPage_Allocs(page) == NeedsAlloc(page.x) + NeedsAlloc(page.ids)

\* addImpl_ stores the page and counts it.
addImpl_Count(total, m) == total + m

RECURSIVE SumN(_)
SumN(pages) == IF pages = <<>> THEN 0 ELSE Head(pages).n + SumN(Tail(pages))

RECURSIVE SumAllocs(_)
SumAllocs(pages) ==
    IF pages = <<>> THEN 0 ELSE addPage_Allocs(Head(pages)) + SumAllocs(Tail(pages))

\* Variant: the trained flag is not looked at.
addValidate_NoTrainedCheck(m) == IF m = 0 THEN "nothing" ELSE "go"

\* add_with_ids: the checks made before anything else is done.
addValidate(m) ==
    IF ~is_trained THEN "NotTrained"
    ELSE IF m = 0 THEN "nothing"
    ELSE "go"

\* The calls of a loop that were entered, and those that returned, when the
\* fail-th one throws: the exception leaves the loop.
\* Variant: the loop goes on after a call has thrown.
IssuedCalls_GoesOn(calls, fail) == calls

IssuedCalls(calls, fail) == IF fail = 0 THEN calls ELSE Take(calls, fail)
\* Variant: a failure undoes the calls that had returned.
CompletedCalls_RolledBack(calls, fail) == IF fail = 0 THEN calls ELSE <<>>

CompletedCalls(calls, fail) == IF fail = 0 THEN calls ELSE Take(calls, fail - 1)

\* add_with_ids(n, x, numeric_type, ids); the fail-th addImpl_ call throws
\* (fail = 0: none does).
add_with_ids(m, t, xLoc, idsKind, requiresIDs, fail) ==
    LET c == [NoCall EXCEPT !.op = "add", !.n = m, !.numeric_type = t,
                            !.x = xLoc, !.ids = idsKind, !.fail = fail,
                            !.requiresIDs = requiresIDs, !.ntotal0 = ntotal]
        gen == GenerateIds(m, idsKind # "null", requiresIDs)
        pages == addPaged_(m, [loc |-> xLoc, rows |-> Rows(m)], t,
                           IdsPointer(m, idsKind, gen))
        done == CompletedCalls(pages, fail)
        tried == IssuedCalls(pages, fail)
    IN
    /\ ntotal + m <= MaxTotal
    /\ UNCHANGED <<d, is_trained, minPagedSize_, config_>>
    /\ IF addValidate(m) = "NotTrained"
       THEN fail = 0 /\ EndsEarly(c, "NotTrained", 0) /\ UNCHANGED ntotal
       ELSE IF addValidate(m) = "nothing"
       THEN fail = 0 /\ EndsEarly(c, "ok", 0) /\ UNCHANGED ntotal
       ELSE IF t \notin SupportedTypes
       THEN /\ fail = 0
            /\ call' = c /\ pc' = "done" /\ result' = "UnsupportedEncoding"
            /\ implLog' = <<>> /\ issued' = <<>> /\ nAlloc' = 0
            /\ generatedIds' = gen
            /\ CallerOutputs(c)
            /\ PipeIdle
            /\ UNCHANGED ntotal
       ELSE /\ fail <= Len(pages)
            /\ call' = [c EXCEPT !.path =
                            IF AddIsTiled(m, get_numeric_type_size(t))
                            THEN "tiled" ELSE "untiled"]
            /\ pc' = "done"
            /\ result' = IF fail = 0 THEN "ok" ELSE "Failure"
            /\ generatedIds' = gen
            /\ issued' = [j \in 1 .. Len(tried) |->
                             addPage_Issue(tried[j], j # fail)]
            /\ implLog' = [j \in 1 .. Len(done) |-> addPage_Exec(done[j])]
            /\ nAlloc' = SumAllocs(tried)
            /\ ntotal' = addImpl_Count(ntotal, SumN(done))
            /\ CallerOutputs(c)
            /\ PipeIdle


\* ------------------------------------------------------------------ search
\* What searchImpl_ writes for the rows it read into rows off .. of buf.
WriteRows(buf, off, rowsRead) ==
    [i \in 1 .. Len(buf) |->
        IF i > off /\ i <= off + Len(rowsRead) THEN rowsRead[i - off] ELSE buf[i]]

\* Variant: a batch exactly at the threshold is not paged.
UsePaged_StrictlyAbove(m, t, x) ==
    IsHostAddress(x) /\ m * d * get_numeric_type_size(t) > minPagedSize_

\* search: n * d * get_numeric_type_size(numeric_type) >= minPagedSize_ for
\* a query on the host.
UsePaged(m, t, x) ==
    IsHostAddress(x) /\ m * d * get_numeric_type_size(t) >= minPagedSize_

\* Variant: the capacity is not halved.
PageSizeInVecs_WholeCapacity(pinnedAlloc, t) ==
    pinnedAlloc.second \div (get_numeric_type_size(t) * d)

\* searchFromCpuPaged_: (pinnedAlloc.second / 2) / (size * d)
PageSizeInVecs(pinnedAlloc, t) ==
    (pinnedAlloc.second \div 2) \div (get_numeric_type_size(t) * d)

\* searchFromCpuPaged_: no overlap of copy and compute
IsUnbuffered(pinnedAlloc, t) ==
    ~pinnedAlloc.first \/ PageSizeInVecs(pinnedAlloc, t) < 1

\* searchFromCpuPaged_: page size of the unbuffered loop
UnbufferedBatchSize(t) ==
    nextHighestPowerOf2(kNonPinnedPageSize \div (get_numeric_type_size(t) * d))

\* The caller's output pointer, and the device-side region search works on:
\* toDeviceTemporary(distances, {m, k}).
OutPointer(m, loc) == [loc |-> loc, rows |-> Blank(m)]
OutRegion(m, loc) == toDeviceTemporary(OutPointer(m, loc), m).rows
OutLoc(loc) == toDeviceTemporary(OutPointer(0, loc), 0).loc

\* Variant: every page's labels go to the start of the label region.
SearchPage_LabelsAtStart(cur, num, x, c) ==
    [n |-> num, x |-> PtrAdd(x, cur), distOff |-> cur, labOff |-> 0,
     dist |-> OutLoc(c.distances), lab |-> OutLoc(c.labels)]

\* One page of a paged search: the query pointer and the output slices.
SearchPage(cur, num, x, c) ==
    [n |-> num, x |-> PtrAdd(x, cur), distOff |-> cur, labOff |-> cur,
     dist |-> OutLoc(c.distances), lab |-> OutLoc(c.labels)]

RECURSIVE UnbufferedPages(_, _, _, _, _)
UnbufferedPages(cur, m, batchSize, x, c) ==
    IF cur >= m THEN <<>>
    ELSE <<SearchPage(cur, Min(batchSize, m - cur), x, c)>>
             \o UnbufferedPages(cur + batchSize, m, batchSize, x, c)

\* searchFromCpuPaged_ (unbuffered): the searchNonPaged_ calls made; a type
\* that matches no branch of the loop body makes none.
UnbufferedCalls(m, t, x, c) ==
    IF t \in SupportedTypes
    THEN UnbufferedPages(0, m, UnbufferedBatchSize(t), x, c)
    ELSE <<>>

\* searchNonPaged_: the query pointer handed to searchImpl_.
searchNonPaged_Vecs(page) == toDeviceTemporary(page.x, page.n)

searchNonPaged_Issue(page, k, ok) ==
    Issue("search", page.n, searchNonPaged_Vecs(page).loc, "null",
          page.dist, page.lab, page.distOff, k, ok)

searchNonPaged_Exec(page, k) ==
    Exec("search", page.n, Take(searchNonPaged_Vecs(page).rows, page.n),
         <<>>, page.distOff, page.labOff, k)

RECURSIVE SumSearchAllocs(_)
SumSearchAllocs(pages) ==
    IF pages = <<>> THEN 0
    ELSE NeedsAlloc(Head(pages).x) + SumSearchAllocs(Tail(pages))

\* The output regions after the executed calls of log, in order.
RECURSIVE WriteAll(_, _, _)
WriteAll(buf, log, field) ==
    IF log = <<>> THEN buf
    ELSE WriteAll(WriteRows(buf, Head(log)[field], Head(log).rows),
                  Tail(log), field)

\* fromDevice(outDistances, distances): the caller's host buffer afterwards.
fromDevice(dev, host, loc) == IF loc = "host" THEN dev ELSE host

\* Pairs fromDevice copies to host memory for an {m, k} region.
fromDeviceCount(m, k, loc) == IF loc = "host" THEN m * k ELSE 0

\* search, on the paths that use the default stream only (searchNonPaged_
\* once, or once per page of the unbuffered loop): calls is the sequence of
\* searchNonPaged_ calls, the fail-th of which throws.
SearchSequential(c, calls, fail, pre) ==
    LET done == CompletedCalls(calls, fail)
        tried == IssuedCalls(calls, fail)
        log == [j \in 1 .. Len(done) |-> searchNonPaged_Exec(done[j], c.k)]
        dist == WriteAll(OutRegion(c.n, c.distances), log, "distOff")
        lab == WriteAll(OutRegion(c.n, c.labels), log, "labOff")
    IN
    /\ fail <= Len(calls)
    /\ call' = c
    /\ pc' = "done"
    /\ result' = IF fail = 0 THEN "ok" ELSE "Failure"
    /\ generatedIds' = <<>>
    /\ issued' = [j \in 1 .. Len(tried) |->
                     searchNonPaged_Issue(tried[j], c.k, j # fail)]
    /\ implLog' = log
    /\ nAlloc' = pre + NeedsAlloc(OutPointer(c.n, c.distances))
                     + NeedsAlloc(OutPointer(c.n, c.labels))
                     + SumSearchAllocs(tried)
    /\ devDistances' = dist
    /\ devLabels' = lab
    /\ hostDistances' =
          IF c.distances # "host" THEN <<>>
          ELSE IF fail = 0 THEN fromDevice(dist, Blank(c.n), c.distances)
          ELSE Blank(c.n)
    /\ hostLabels' =
          IF c.labels # "host" THEN <<>>
          ELSE IF fail = 0 THEN fromDevice(lab, Blank(c.n), c.labels)
          ELSE Blank(c.n)
    /\ copiedBack' =
          IF fail = 0
          THEN fromDeviceCount(c.n, c.k, c.distances)
                 + fromDeviceCount(c.n, c.k, c.labels)
          ELSE 0
    /\ PipeIdle


\* ------------------------------------------------- the overlapped pipeline
\* Work queued on a stream: it starts once the event it waits for (if any)
\* has completed, and the event recorded behind it completes with it.
StreamOp(op, waitFor, slot, num, off, k, ev) ==
    [op |-> op, waitFor |-> waitFor, slot |-> slot, num |-> num, off |-> off,
     k |-> k, ev |-> ev]
WaitOp(ev) == StreamOp("wait", ev, 0, 0, 0, 0, NoEvent)
MemcpyOp(waitFor, slot, num, ev) == StreamOp("memcpy", waitFor, slot, num, 0, 0, ev)
SearchOp(waitFor, slot, num, off, k, ev) ==
    StreamOp("search", waitFor, slot, num, off, k, ev)

\* The stream may start the operation.
Ready(o) == o.waitFor = NoEvent \/ o.waitFor \in firedEvents

\* The events completed once the operation has run.
Fired(o) == IF o.ev = NoEvent THEN firedEvents ELSE firedEvents \cup {o.ev}

\* data written over the head of buf
Overwrite(buf, data) == data \o Drop(buf, Len(data))

\* Variant: the buffer index is not flipped.
Flip_Stays(idx) == idx

\* (idx == 0) ? 1 : 0
Flip(idx) == IF idx = 0 THEN 1 ELSE 0

\* pageSizeInVecs of the call in progress, and the number of its pages
pageSizeInVecs == PageSizeInVecs(call.pinnedAlloc, call.numeric_type)
NumPages == (call.n + pageSizeInVecs - 1) \div pageSizeInVecs

\* bufPinned[slot] = bufPinnedA + slot * pageSizeInVecs * d, as a byte
\* offset from pinnedAlloc.first.
PinnedOffset(slot) ==
    slot * pageSizeInVecs * d * get_numeric_type_size(call.numeric_type)

\* One stage the host has run in an iteration of the loop: the page it
\* starts at (in vectors), its vectors, the buffer index used, the place of
\* that pinned buffer and the bytes the copy moves (0 for stage 3, which
\* copies nothing).
StageRun(st, cur, num, slot, bytes) ==
    [iter |-> iter, stage |-> st, cur |-> cur, num |-> num, slot |-> slot,
     at |-> PinnedOffset(slot), bytes |-> bytes]

\* cudaMemcpyAsync: numToCopy * d * sizeof(data_t)
TransferBytes(numToCopy) ==
    numToCopy * d * get_numeric_type_size(call.numeric_type)

\* memcpy: numToCopy * d * get_numeric_type_size(numeric_type)
CopyInBytes(numToCopy) ==
    numToCopy * d * get_numeric_type_size(call.numeric_type)

\* searchFromCpuPaged_ with pinned memory: the buffers are reserved and the
\* loop is entered (cur3 = -1 < n).
PipelineBegin(c, pre) ==
    LET psv == PageSizeInVecs(c.pinnedAlloc, c.numeric_type)
        cells == Min(psv, c.n)
    IN
    /\ c.fail <= (c.n + psv - 1) \div psv
    /\ call' = c
    /\ pc' = "loop"
    /\ result' = "none"
    /\ generatedIds' = <<>>
    /\ issued' = <<>>
    /\ implLog' = <<>>
    /\ nAlloc' = pre + NeedsAlloc(OutPointer(c.n, c.distances))
                     + NeedsAlloc(OutPointer(c.n, c.labels)) + 2
    /\ devDistances' = OutRegion(c.n, c.distances)
    /\ devLabels' = OutRegion(c.n, c.labels)
    /\ hostDistances' = IF c.distances = "host" THEN Blank(c.n) ELSE <<>>
    /\ hostLabels' = IF c.labels = "host" THEN Blank(c.n) ELSE <<>>
    /\ copiedBack' = 0
    /\ cur1' = 0 /\ cur2' = -1 /\ cur3' = -1
    /\ cur1BufIndex' = 0 /\ cur2BufIndex' = 0 /\ cur3BufIndex' = 0
    /\ bufPinned' = <<Blank(cells), Blank(cells)>>
    /\ bufGpus' = <<Blank(cells), Blank(cells)>>
    /\ eventPinnedCopyDone' = <<NoEvent, NoEvent>>
    /\ eventGpuExecuteDone' = <<NoEvent, NoEvent>>
    /\ firedEvents' = {} /\ copyStream' = <<>> /\ defaultStream' = <<>>
    /\ stage' = 2
    /\ iter' = 1 /\ pipeLog' = <<>>

\* Stage 2 of an iteration: queue the pinned -> GPU copy of the page at cur2.
\* Variant: the transfer reads the pinned buffer stage 1 fills next.
TransferSlot_Other == Flip(cur2BufIndex)

TransferSlot == cur2BufIndex
\* Variant: the copy is queued without waiting for the buffer's last search.
TransferWaits_Nothing(slot) == NoEvent

TransferWaits(slot) == eventGpuExecuteDone[slot + 1]

PipeTransfer ==
    /\ pc = "loop" /\ stage = 2
    /\ stage' = 3
    /\ UNCHANGED <<indexVars, callVars, outVars, issued, opsVars>>
    /\ UNCHANGED <<cur1, cur1BufIndex, cur3BufIndex, bufPinned, bufGpus,
                   eventGpuExecuteDone, firedEvents, defaultStream, iter>>
    /\ IF cur2 # -1 /\ cur2 < call.n
       THEN LET numToCopy == Min(pageSizeInVecs, call.n - cur2)
                ev == [kind |-> "copy", page |-> cur2]
            IN
            /\ copyStream' = Append(copyStream,
                  MemcpyOp(TransferWaits(TransferSlot), TransferSlot,
                           numToCopy, ev))
            /\ eventPinnedCopyDone' =
                  [eventPinnedCopyDone EXCEPT ![TransferSlot + 1] = ev]
            /\ cur3' = cur2
            /\ cur2' = cur2 + numToCopy
            /\ cur2BufIndex' = Flip(cur2BufIndex)
            /\ pipeLog' = Append(pipeLog,
                  StageRun(2, cur2, numToCopy, TransferSlot,
                           TransferBytes(numToCopy)))
       ELSE UNCHANGED <<copyStream, eventPinnedCopyDone, cur3, cur2,
                        cur2BufIndex, pipeLog>>

\* Variant: the search reads the device buffer the next transfer fills.
ComputeSlot_Other == Flip(cur3BufIndex)

\* Stage 3: queue the search of the page at cur3 behind its copy's event.
ComputeSlot == cur3BufIndex
\* Variant: the search is queued without waiting for any copy.
ComputeWaits_Unset(slot) == NoEvent

\* Variant: the search waits for the copy into the other GPU buffer.
ComputeWaits_OtherSlot(slot) == eventPinnedCopyDone[Flip(slot) + 1]

ComputeWaits(slot) == eventPinnedCopyDone[slot + 1]
\* Variant: the output slice starts at the transfer cursor.
ComputeOutOffset_Cur2 == cur2

ComputeOutOffset == cur3

PipeCompute ==
    /\ pc = "loop" /\ stage = 3
    /\ UNCHANGED <<indexVars, call, implLog, nAlloc, generatedIds, outVars,
                   opsVars>>
    /\ UNCHANGED <<cur1, cur2, cur1BufIndex, cur2BufIndex, bufPinned, bufGpus,
                   eventPinnedCopyDone, firedEvents, copyStream, iter>>
    /\ IF cur3 # -1 /\ cur3 < call.n
       THEN LET numToProcess == Min(pageSizeInVecs, call.n - cur3)
                ev == [kind |-> "exec", page |-> cur3]
                throws == call.fail = (cur3 \div pageSizeInVecs) + 1
            IN
            /\ issued' = Append(issued,
                  Issue("search", numToProcess, "device", "null",
                        OutLoc(call.distances), OutLoc(call.labels),
                        ComputeOutOffset, call.k, ~throws))
            /\ pipeLog' = Append(pipeLog,
                  StageRun(3, cur3, numToProcess, ComputeSlot, 0))
            /\ IF throws
               THEN /\ defaultStream' =
                          Append(defaultStream, WaitOp(ComputeWaits(ComputeSlot)))
                    /\ pc' = "done" /\ result' = "Failure" /\ stage' = 0
                    /\ UNCHANGED <<eventGpuExecuteDone, cur3BufIndex, cur3>>
               ELSE /\ defaultStream' = Append(defaultStream,
                          SearchOp(ComputeWaits(ComputeSlot), ComputeSlot,
                                   numToProcess, ComputeOutOffset, call.k, ev))
                    /\ eventGpuExecuteDone' =
                          [eventGpuExecuteDone EXCEPT ![ComputeSlot + 1] = ev]
                    /\ cur3BufIndex' = Flip(cur3BufIndex)
                    /\ cur3' = cur3 + numToProcess
                    /\ stage' = 1
                    /\ UNCHANGED <<pc, result>>
       ELSE /\ stage' = 1
            /\ UNCHANGED <<issued, defaultStream, eventGpuExecuteDone,
                           cur3BufIndex, cur3, pc, result, pipeLog>>

\* Stage 1: copy the page at cur1 from the caller's memory to a pinned
\* buffer, once the buffer's last pinned -> GPU copy is done; then the loop
\* test, while (cur3 < n).
CopyInSlot == cur1BufIndex
\* Variant: the loop ends once the last page has been copied in.
LoopGoesOn_CopyIn == cur1' < call.n

\* while (cur3 < n)
LoopGoesOn == cur3 < call.n
\* Variant: the host does not wait for the buffer's last copy.
CopyInMayProceed_NoWait(slot) == slot \in {0, 1}

CopyInMayProceed(slot) ==
    \/ eventPinnedCopyDone[slot + 1] = NoEvent
    \/ eventPinnedCopyDone[slot + 1] \in firedEvents

PipeCopyIn ==
    /\ pc = "loop" /\ stage = 1
    /\ UNCHANGED opsVars
    /\ UNCHANGED <<indexVars, call, result, implLog, nAlloc, generatedIds,
                   outVars, issued>>
    /\ UNCHANGED <<cur3, cur2BufIndex, cur3BufIndex, bufGpus,
                   eventPinnedCopyDone, eventGpuExecuteDone, firedEvents,
                   copyStream, defaultStream>>
    /\ IF cur1 < call.n
       THEN LET numToCopy == Min(pageSizeInVecs, call.n - cur1)
            IN
            /\ CopyInMayProceed(CopyInSlot)
            /\ bufPinned' = [bufPinned EXCEPT ![CopyInSlot + 1] =
                  Overwrite(@, SubSeq(Rows(call.n), cur1 + 1, cur1 + numToCopy))]
            /\ cur2' = cur1
            /\ cur1' = cur1 + numToCopy
            /\ cur1BufIndex' = Flip(cur1BufIndex)
            /\ pipeLog' = Append(pipeLog,
                  StageRun(1, cur1, numToCopy, CopyInSlot,
                           CopyInBytes(numToCopy)))
       ELSE UNCHANGED <<bufPinned, cur2, cur1, cur1BufIndex, pipeLog>>
    /\ IF LoopGoesOn
       THEN stage' = 2 /\ pc' = "loop" /\ iter' = iter + 1
       ELSE stage' = 0 /\ pc' = "copyback" /\ iter' = iter

\* The copy stream runs the operation at its head.
CopyStreamStep ==
    /\ copyStream # <<>>
    /\ copyStream' = Tail(copyStream)
    /\ UNCHANGED <<indexVars, callVars, outVars, issued, opsVars>>
    /\ UNCHANGED <<cur1, cur2, cur3, cur1BufIndex, cur2BufIndex, cur3BufIndex,
                   bufPinned, eventPinnedCopyDone, eventGpuExecuteDone,
                   defaultStream, stage, iter, pipeLog>>
    /\ Ready(Head(copyStream))
    /\ firedEvents' = Fired(Head(copyStream))
    /\ LET o == Head(copyStream) IN
       IF o.op = "memcpy"
       THEN bufGpus' = [bufGpus EXCEPT ![o.slot + 1] =
               Overwrite(@, Take(bufPinned[o.slot + 1], o.num))]
       ELSE UNCHANGED bufGpus

\* The default stream runs the operation at its head; a search reads its
\* GPU buffer as it is then and writes the output rows of its page.
DefaultStreamStep ==
    /\ defaultStream # <<>>
    /\ defaultStream' = Tail(defaultStream)
    /\ UNCHANGED <<indexVars, call, pc, result, nAlloc, generatedIds, issued,
                   opsVars>>
    /\ UNCHANGED <<hostDistances, hostLabels, copiedBack>>
    /\ UNCHANGED <<cur1, cur2, cur3, cur1BufIndex, cur2BufIndex, cur3BufIndex,
                   bufPinned, bufGpus, eventPinnedCopyDone, eventGpuExecuteDone,
                   copyStream, stage, iter, pipeLog>>
    /\ Ready(Head(defaultStream))
    /\ firedEvents' = Fired(Head(defaultStream))
    /\ LET o == Head(defaultStream)
           rowsRead == Take(bufGpus[o.slot + 1], o.num)
       IN
       IF o.op = "search"
       THEN /\ implLog' = Append(implLog,
                  Exec("search", o.num, rowsRead, <<>>, o.off, o.off, o.k))
            /\ devDistances' = WriteRows(devDistances, o.off, rowsRead)
            /\ devLabels' = WriteRows(devLabels, o.off, rowsRead)
       ELSE UNCHANGED <<implLog, devDistances, devLabels>>

\* search, after searchFromCpuPaged_ returned: fromDevice copies the output
\* regions back; a copy to host memory returns once the default stream has
\* run it.
SearchCopyBack ==
    /\ pc = "copyback"
    /\ (call.distances = "host" \/ call.labels = "host") => defaultStream = <<>>
    /\ pc' = "done"
    /\ result' = "ok"
    /\ hostDistances' = fromDevice(devDistances, hostDistances, call.distances)
    /\ hostLabels' = fromDevice(devLabels, hostLabels, call.labels)
    /\ copiedBack' = fromDeviceCount(call.n, call.k, call.distances)
                       + fromDeviceCount(call.n, call.k, call.labels)
    /\ UNCHANGED opsVars
    /\ UNCHANGED <<indexVars, call, implLog, nAlloc, generatedIds,
                   devDistances, devLabels, pipeVars>>


\* ------------------------------------------------------- search and assign
\* Variant: the empty-request return comes before the validation of k.
searchValidate_ReturnsFirst(m, k) ==
    IF ~is_trained THEN "NotTrained"
    ELSE IF m = 0 \/ k = 0 THEN "nothing"
    ELSE IF ~validateKSelect(k, should_use_cuvs(config_)) THEN "InvalidK"
    ELSE "go"

\* Variant: an empty request is not returned early.
searchValidate_NoEarlyReturn(m, k) ==
    IF ~is_trained THEN "NotTrained"
    ELSE IF ~validateKSelect(k, should_use_cuvs(config_)) THEN "InvalidK"
    ELSE "go"

\* search: the checks made before anything else is done.
searchValidate(m, k) ==
    IF ~is_trained THEN "NotTrained"
    ELSE IF ~validateKSelect(k, should_use_cuvs(config_)) THEN "InvalidK"
    ELSE IF m = 0 \/ k = 0 THEN "nothing"
    ELSE "go"

\* search(n, x, numeric_type, k, distances, labels) after pre device
\* allocations of its caller; the fail-th searchImpl_ call throws.
search(op, m, t, k, xLoc, distLoc, labLoc, pinnedAlloc, fail, pre) ==
    LET c == [NoCall EXCEPT !.op = op, !.n = m, !.numeric_type = t, !.k = k,
                            !.x = xLoc, !.distances = distLoc,
                            !.labels = labLoc, !.ntotal0 = ntotal]
        x == [loc |-> xLoc, rows |-> Rows(m)]
        outAllocs == NeedsAlloc(OutPointer(m, distLoc))
                       + NeedsAlloc(OutPointer(m, labLoc))
        unpaged == fail = 0 /\ ~pinnedAlloc.first
    IN
    /\ UNCHANGED indexVars
    /\ IF searchValidate(m, k) = "NotTrained"
       THEN unpaged /\ EndsEarly(c, "NotTrained", 0)
       ELSE IF searchValidate(m, k) = "InvalidK"
       THEN unpaged /\ EndsEarly(c, "InvalidK", 0)
       ELSE IF searchValidate(m, k) = "nothing"
       THEN unpaged /\ EndsEarly(c, "ok", pre)
       ELSE IF UsePaged(m, t, x)
       THEN IF IsUnbuffered(pinnedAlloc, t)
            THEN SearchSequential(
                    [c EXCEPT !.path = "unbuffered", !.fail = fail,
                              !.pinnedAlloc = pinnedAlloc],
                    UnbufferedCalls(m, t, x, c), fail, pre)
            ELSE IF t \notin SupportedTypes
            THEN /\ fail = 0
                 /\ EndsEarly([c EXCEPT !.path = "pipeline",
                                        !.pinnedAlloc = pinnedAlloc],
                              "UnsupportedEncoding", pre + outAllocs)
            ELSE PipelineBegin(
                    [c EXCEPT !.path = "pipeline", !.fail = fail,
                              !.pinnedAlloc = pinnedAlloc], pre)
       ELSE IF t \notin SupportedTypes
       THEN unpaged
              /\ EndsEarly([c EXCEPT !.path = "untiled"],
                           "UnsupportedEncoding", pre + outAllocs)
       ELSE ~pinnedAlloc.first
              /\ SearchSequential([c EXCEPT !.path = "untiled", !.fail = fail],
                                  <<SearchPage(0, m, x, c)>>, fail, pre)

\* The call has returned to its caller (pc = "done"), its locals are gone
\* and the work it queued has run: the index is ready for the next call.
Returns ==
    /\ pc = "done"
    /\ copyStream = <<>> /\ defaultStream = <<>>
    /\ UNCHANGED indexVars
    /\ call' = NoCall /\ pc' = "idle" /\ result' = "none"
    /\ implLog' = <<>> /\ issued' = <<>> /\ nAlloc' = 0 /\ generatedIds' = <<>>
    /\ CallerOutputs(NoCall)
    /\ PipeIdle

Return == Returns /\ UNCHANGED opsVars

Locs == {"host", "device"}

AddWithIds ==
    /\ CanCall
    /\ UNCHANGED opsVars
    /\ \E m \in 0 .. MaxN, t \in NumericTypes, xLoc \in Locs,
       idsKind \in {"null", "host", "device"}, requiresIDs \in BOOLEAN,
       fail \in 0 .. MaxN :
        add_with_ids(m, t, xLoc, idsKind, requiresIDs, fail)

Search ==
    /\ CanCall
    /\ UNCHANGED opsVars
    /\ \E m \in 0 .. MaxN, t \in NumericTypes, k \in Ks, xLoc \in Locs,
       distLoc \in Locs, labLoc \in Locs, pinnedAlloc \in PinnedAllocs,
       fail \in 0 .. MaxN :
        search("search", m, t, k, xLoc, distLoc, labLoc, pinnedAlloc, fail, 0)

\* assign(n, x, labels, k): search with a throw-away device buffer of
\* distances, reserved after assign's own checks.
Assign ==
    /\ CanCall
    /\ UNCHANGED opsVars
    /\ \E m \in 0 .. MaxN, k \in Ks, xLoc \in Locs, labLoc \in Locs,
       pinnedAlloc \in PinnedAllocs, fail \in 0 .. MaxN :
        search("assign", m, "Float32", k, xLoc, "device", labLoc,
               pinnedAlloc, fail, 1)

\* --------------------------------------------------------- specification
\* The five fields copyFrom and copyTo exchange, as the index has them.
Meta ==
    [d |-> d, metric_type |-> metric_type, metric_arg |-> metric_arg,
     ntotal |-> ntotal, is_trained |-> is_trained]

\* The caller has kept no search result.
NoKept == [n |-> 0, numeric_type |-> "none", k |-> 0,
           distances |-> <<>>, labels |-> <<>>]

Configs == [use_cuvs : BOOLEAN, major : {6, 7}]

Init ==
    /\ d \in Dims
    /\ ntotal = 0
    /\ is_trained \in BOOLEAN
    /\ minPagedSize_ = kMinPageSize
    /\ config_ \in Configs
    /\ call = NoCall /\ pc = "idle" /\ result = "none"
    /\ implLog = <<>> /\ issued = <<>> /\ nAlloc = 0 /\ generatedIds = <<>>
    /\ devDistances = <<>> /\ devLabels = <<>>
    /\ hostDistances = <<>> /\ hostLabels = <<>> /\ copiedBack = 0
    /\ cur1 = 0 /\ cur2 = -1 /\ cur3 = -1
    /\ cur1BufIndex = 0 /\ cur2BufIndex = 0 /\ cur3BufIndex = 0
    /\ bufPinned = <<>> /\ bufGpus = <<>>
    /\ eventPinnedCopyDone = <<NoEvent, NoEvent>>
    /\ eventGpuExecuteDone = <<NoEvent, NoEvent>>
    /\ firedEvents = {} /\ copyStream = <<>> /\ defaultStream = <<>>
    /\ stage = 0
    /\ iter = 0 /\ pipeLog = <<>>
    /\ metric_type = "METRIC_L2" /\ metric_arg = 0
    /\ mirror = Meta
    /\ lastSetSize = kMinPageSize /\ retSize = 0 /\ reconLog = <<>>
    /\ kept = NoKept

Next ==
    \/ AddWithIds
    \/ Search
    \/ Assign
    \/ PipeTransfer
    \/ PipeCompute
    \/ PipeCopyIn
    \/ CopyStreamStep
    \/ DefaultStreamStep
    \/ SearchCopyBack
    \/ Return

Spec == Init /\ [][Next]_vars

\* No call is in progress and none has left anything behind.
Quiescent ==
    /\ call = NoCall /\ pc = "idle" /\ result = "none"
    /\ implLog = <<>> /\ issued = <<>> /\ nAlloc = 0 /\ generatedIds = <<>>
    /\ devDistances = <<>> /\ devLabels = <<>>
    /\ hostDistances = <<>> /\ hostLabels = <<>> /\ copiedBack = 0
    /\ cur1 = 0 /\ cur2 = -1 /\ cur3 = -1
    /\ cur1BufIndex = 0 /\ cur2BufIndex = 0 /\ cur3BufIndex = 0
    /\ bufPinned = <<>> /\ bufGpus = <<>>
    /\ eventPinnedCopyDone = <<NoEvent, NoEvent>>
    /\ eventGpuExecuteDone = <<NoEvent, NoEvent>>
    /\ firedEvents = {} /\ copyStream = <<>> /\ defaultStream = <<>>
    /\ stage = 0
    /\ iter = 0 /\ pipeLog = <<>>

\* ------------------------------------------- addPaged_ at its thresholds
\* Batches around kAddVecSize and kAddPageSize, up to vectors larger than
\* kAddPageSize: the vectors' content plays no part, so x is a device
\* pointer whose rows are left out.
PagingDims == {1, 128, 67108864, 134217728}
PagingNs == {1, 2, 3, 4, 5, 524288, 524289}

\* The vectors one addPage_ call is handed: how many, from which vector of
\* the caller's batch to which.
TileSpan(page) ==
    [n |-> page.n, first |-> page.i, last |-> page.i + page.n - 1]

\* Largest batch in bytes the model builds.
MaxBatchBytes == 1610612736

\* addPaged_(n, x, numeric_type, nullptr) with x on the device.
AddPaged ==
    /\ CanCall
    /\ ntotal = 0
    /\ UNCHANGED <<d, is_trained, minPagedSize_, config_, opsVars>>
    /\ \E m \in PagingNs, t \in NumericTypes :
        LET c == [NoCall EXCEPT !.op = "addPaged_", !.n = m,
                                !.numeric_type = t, !.x = "device",
                                !.path =
                                   IF t \notin SupportedTypes THEN "none"
                                   ELSE IF AddIsTiled(m, get_numeric_type_size(t))
                                   THEN "tiled" ELSE "untiled"]
            pages == addPaged_(m, DevicePtr(<<>>), t, NullPtr)
        IN
        /\ m <= MaxBatchBytes \div (d * get_numeric_type_size(t))
        /\ call' = c /\ pc' = "done"
        /\ result' =
              IF t \in SupportedTypes THEN "ok" ELSE "UnsupportedEncoding"
        /\ issued' =
              IF t \in SupportedTypes
              THEN [j \in 1 .. Len(pages) |-> addPage_Issue(pages[j], TRUE)]
              ELSE <<>>
        /\ ntotal' =
              IF t \in SupportedTypes
              THEN addImpl_Count(ntotal, SumN(pages)) ELSE ntotal
        /\ implLog' =
              IF t \in SupportedTypes
              THEN [j \in 1 .. Len(pages) |-> TileSpan(pages[j])]
              ELSE <<>>
        /\ nAlloc' = 0 /\ generatedIds' = <<>>
        /\ CallerOutputs(c)
        /\ PipeIdle

InitPaging ==
    /\ d \in PagingDims
    /\ ntotal = 0
    /\ is_trained = TRUE
    /\ minPagedSize_ = kMinPageSize
    /\ config_ \in Configs
    /\ Quiescent
    /\ metric_type = "METRIC_L2" /\ metric_arg = 0
    /\ mirror = Meta
    /\ lastSetSize = kMinPageSize /\ retSize = 0 /\ reconLog = <<>>
    /\ kept = NoKept

NextPaging ==
    \/ AddPaged
    \/ Return

SpecPaging == InitPaging /\ [][NextPaging]_vars

\* ------------------------------------------------- the public operations
\* Batches of the calls below hold at most this many vectors.
MaxOpsN == 2

\* Sizes of the batches inserted below.
AddNs == {0, 3}

\* Host-side indexes handed to copyFrom and copyTo.
Mirrors ==
    { [d |-> 33554432, metric_type |-> "METRIC_INNER_PRODUCT",
       metric_arg |-> 3, ntotal |-> 3, is_trained |-> TRUE],
      [d |-> 67108864, metric_type |-> "METRIC_L2",
       metric_arg |-> 0, ntotal |-> 0, is_trained |-> FALSE] }

\* Values handed to setMinPagingSize.
PagingSizes == {134217728, 536870912}

\* Variant: the dimensionality is kept.
copyFrom_KeepsD(index) ==
    [d |-> d, metric_type |-> index.metric_type,
     metric_arg |-> index.metric_arg, ntotal |-> index.ntotal,
     is_trained |-> index.is_trained]

\* copyFrom(index): the index's five fields afterwards.
copyFrom(index) ==
    [d |-> index.d, metric_type |-> index.metric_type,
     metric_arg |-> index.metric_arg, ntotal |-> index.ntotal,
     is_trained |-> index.is_trained]

\* Variant: the metric argument is not written.
copyTo_NoMetricArg(index) ==
    [index EXCEPT !.d = d, !.metric_type = metric_type, !.ntotal = ntotal,
                  !.is_trained = is_trained]

\* copyTo(index): the five fields of *index afterwards.
copyTo(index) ==
    [index EXCEPT !.d = d, !.metric_type = metric_type,
                  !.metric_arg = metric_arg, !.ntotal = ntotal,
                  !.is_trained = is_trained]

\* An operation that makes no call to the implementation and touches no
\* device memory has returned with r.
Answers(op, r) ==
    /\ call' = [NoCall EXCEPT !.op = op, !.ntotal0 = ntotal]
    /\ pc' = "done" /\ result' = r
    /\ implLog' = <<>> /\ issued' = <<>> /\ nAlloc' = 0
    /\ generatedIds' = <<>>
    /\ CallerOutputs(NoCall)
    /\ PipeIdle

CopyFrom ==
    /\ CanCall
    /\ d' = copyFrom(mirror).d
    /\ metric_type' = copyFrom(mirror).metric_type
    /\ metric_arg' = copyFrom(mirror).metric_arg
    /\ ntotal' = copyFrom(mirror).ntotal
    /\ is_trained' = copyFrom(mirror).is_trained
    /\ kept' = NoKept
    /\ UNCHANGED <<minPagedSize_, config_, mirror, lastSetSize, retSize,
                   reconLog>>
    /\ Answers("copyFrom", "ok")

CopyTo ==
    /\ CanCall
    /\ mirror' = copyTo(mirror)
    /\ UNCHANGED <<indexVars, metric_type, metric_arg, lastSetSize, retSize,
                   reconLog, kept>>
    /\ Answers("copyTo", "ok")

SetMinPagingSize ==
    /\ CanCall
    /\ \E size \in PagingSizes :
        /\ minPagedSize_' = size
        /\ lastSetSize' = size
    /\ UNCHANGED <<d, ntotal, is_trained, config_, metric_type, metric_arg,
                   mirror, retSize, reconLog, kept>>
    /\ Answers("setMinPagingSize", "ok")

getMinPagingSize == minPagedSize_

GetMinPagingSize ==
    /\ CanCall
    /\ retSize' = getMinPagingSize
    /\ UNCHANGED <<indexVars, metric_type, metric_arg, mirror, lastSetSize,
                   reconLog, kept>>
    /\ Answers("getMinPagingSize", "ok")

\* Variant: the trained flag is checked first, as insert and search do.
ComputeResidual_ChecksTrained ==
    /\ CanCall
    /\ UNCHANGED <<indexVars, opsVars>>
    /\ Answers("compute_residual",
               IF is_trained THEN "NotImplemented" ELSE "NotTrained")

\* compute_residual(x, residual, key)
ComputeResidual ==
    /\ CanCall
    /\ UNCHANGED <<indexVars, opsVars>>
    /\ Answers("compute_residual", "NotImplemented")

\* compute_residual_n(n, xs, residuals, keys)
ComputeResidualN ==
    /\ CanCall
    /\ UNCHANGED <<indexVars, opsVars>>
    /\ Answers("compute_residual_n", "NotImplemented")

\* add(n, x): add_with_ids(n, x, Float32, nullptr)
Add ==
    /\ CanCall
    /\ kept' = NoKept
    /\ UNCHANGED <<metric_type, metric_arg, mirror, lastSetSize, retSize,
                   reconLog>>
    /\ \E m \in AddNs, xLoc \in Locs, requiresIDs \in BOOLEAN :
        add_with_ids(m, "Float32", xLoc, "null", requiresIDs, 0)

\* search(n, x, k, distances, labels): search(n, x, Float32, k, ...)
SearchFloat ==
    /\ CanCall
    /\ UNCHANGED opsVars
    /\ \E m \in 0 .. MaxOpsN, k \in Ks, xLoc \in Locs, outLoc \in Locs,
       pinnedAlloc \in PinnedAllocs :
        search("search", m, "Float32", k, xLoc, outLoc, outLoc,
               pinnedAlloc, 0, 0)

AssignFloat ==
    /\ CanCall
    /\ UNCHANGED opsVars
    /\ \E m \in 0 .. MaxOpsN, k \in Ks, xLoc \in Locs, labLoc \in Locs,
       pinnedAlloc \in PinnedAllocs :
        search("assign", m, "Float32", k, xLoc, "device", labLoc,
               pinnedAlloc, 0, 1)

\* search_and_reconstruct(n, x, k, distances, labels, recons): the search.
SearchAndReconstruct ==
    /\ CanCall
    /\ UNCHANGED opsVars
    /\ \E m \in 0 .. MaxOpsN, k \in Ks, xLoc \in Locs, outLoc \in Locs,
       pinnedAlloc \in PinnedAllocs, fail \in 0 .. MaxOpsN :
        search("search_and_reconstruct", m, "Float32", k, xLoc, outLoc,
               outLoc, pinnedAlloc, fail, 0)

\* Variant: reconstruct_batch is called however search ended.
ReconstructPending_AnyResult ==
    /\ pc = "done" /\ call.op = "search_and_reconstruct"
    /\ result \in {"ok", "Failure", "NotTrained", "InvalidK"}
    /\ reconLog = <<>>

\* search_and_reconstruct: search has returned and reconstruct_batch has not
\* been called yet.
ReconstructPending ==
    /\ pc = "done" /\ call.op = "search_and_reconstruct"
    /\ result \in {"ok"} /\ reconLog = <<>>

\* reconstruct_batch(n * k, labels, recons), whose outcome is the
\* implementation's; it finds in labels what the work queued before it
\* has written.
Reconstruct ==
    /\ ReconstructPending
    /\ copyStream = <<>> /\ defaultStream = <<>>
    /\ \E ok \in BOOLEAN :
        /\ reconLog' =
              <<[n |-> call.n * call.k,
                 labels |-> IF call.labels = "device" THEN devLabels
                            ELSE hostLabels,
                 ok |-> ok]>>
        /\ result' = IF ok THEN "ok" ELSE "ReconstructFailure"
    /\ UNCHANGED <<indexVars, call, pc, implLog, nAlloc, generatedIds,
                   outVars, pipeVars>>
    /\ UNCHANGED <<metric_type, metric_arg, mirror, lastSetSize, retSize,
                   kept>>

\* What the caller keeps of a search that has succeeded.
Keeps ==
    IF call.op = "search" /\ result = "ok" /\ call.n > 0
    THEN [n |-> call.n, numeric_type |-> call.numeric_type, k |-> call.k,
          distances |-> IF call.distances = "device" THEN devDistances
                        ELSE hostDistances,
          labels |-> IF call.labels = "device" THEN devLabels
                     ELSE hostLabels]
    ELSE kept

\* The operation has returned to its caller.
ReturnOps ==
    /\ ~ReconstructPending
    /\ Returns
    /\ kept' = Keeps
    /\ retSize' = 0 /\ reconLog' = <<>>
    /\ UNCHANGED <<metric_type, metric_arg, mirror, lastSetSize>>

InitOps ==
    /\ d \in Dims
    /\ ntotal = 0
    /\ is_trained \in BOOLEAN
    /\ minPagedSize_ = kMinPageSize
    /\ config_ \in {c \in Configs : c.major = 7}
    /\ Quiescent
    /\ metric_type = "METRIC_L2" /\ metric_arg = 0
    /\ mirror \in Mirrors
    /\ lastSetSize = kMinPageSize /\ retSize = 0 /\ reconLog = <<>>
    /\ kept = NoKept

NextOps ==
    \/ Add
    \/ SearchFloat
    \/ AssignFloat
    \/ SearchAndReconstruct
    \/ Reconstruct
    \/ CopyFrom
    \/ CopyTo
    \/ SetMinPagingSize
    \/ GetMinPagingSize
    \/ ComputeResidual
    \/ ComputeResidualN
    \/ PipeTransfer
    \/ PipeCompute
    \/ PipeCopyIn
    \/ CopyStreamStep
    \/ DefaultStreamStep
    \/ SearchCopyBack
    \/ ReturnOps

SpecOps == InitOps /\ [][NextOps]_vars

\* ------------------------------------------------ paged search of host x
\* Searches of host-resident queries over dimensionalities, encodings and
\* pinned capacities that give pages of zero, one and several vectors, with
\* and without a remainder of the capacity.
PagedDims == {1, 3, 67108864, 134217728}
PagedPinnedAllocs ==
    { [first |-> FALSE, second |-> 0],
      [first |-> TRUE, second |-> 7],
      [first |-> TRUE, second |-> 9],
      [first |-> TRUE, second |-> 134217728],
      [first |-> TRUE, second |-> 536870912] }

\* Paging thresholds left by setMinPagingSize, and the initial one.
PagedThresholds == {1, kMinPageSize}

\* search(n, x, numeric_type, k, distances, labels) with x on the host.
SearchPaged ==
    /\ CanCall
    /\ UNCHANGED opsVars
    /\ \E m \in 1 .. MaxN, t \in SupportedTypes, outLoc \in Locs,
          pinnedAlloc \in PagedPinnedAllocs, fail \in 0 .. MaxN :
        /\ m <= MaxBatchBytes \div (d * get_numeric_type_size(t))
        /\ search("search", m, t, 2, "host", outLoc, outLoc, pinnedAlloc,
                  fail, 0)

InitPagedSearch ==
    /\ d \in PagedDims
    /\ ntotal = 0
    /\ is_trained = TRUE
    /\ minPagedSize_ \in PagedThresholds
    /\ config_ \in {c \in Configs : c.major = 7}
    /\ Quiescent
    /\ metric_type = "METRIC_L2" /\ metric_arg = 0
    /\ mirror = Meta
    /\ lastSetSize = minPagedSize_ /\ retSize = 0 /\ reconLog = <<>>
    /\ kept = NoKept

NextPagedSearch ==
    \/ SearchPaged
    \/ PipeTransfer
    \/ PipeCompute
    \/ PipeCopyIn
    \/ CopyStreamStep
    \/ DefaultStreamStep
    \/ SearchCopyBack
    \/ Return

\* The host thread runs on, and each stream runs the work queued on it.
PagedSearchFairness ==
    /\ WF_vars(PipeTransfer) /\ WF_vars(PipeCompute) /\ WF_vars(PipeCopyIn)
    /\ WF_vars(CopyStreamStep) /\ WF_vars(DefaultStreamStep)
    /\ WF_vars(SearchCopyBack)

SpecPagedSearch ==
    InitPagedSearch /\ [][NextPagedSearch]_vars /\ PagedSearchFairness


\* -------------------------------------------------------------- properties
\* The call has returned to its caller.
Returned == pc = "done"

\* Everything the call queued on the device has run.
Drained == copyStream = <<>> /\ defaultStream = <<>>

\* The caller's output buffers, wherever they live.
CallerDistances ==
    IF call.distances = "device" THEN devDistances ELSE hostDistances
CallerLabels == IF call.labels = "device" THEN devLabels ELSE hostLabels

\* Nothing was written to the caller's output buffers.
OutputsUntouched ==
    /\ call.distances \in Locs => CallerDistances = Blank(call.n)
    /\ call.labels \in Locs => CallerLabels = Blank(call.n)

\* k is neither zero, negative nor above the selection backend's maximum.
KWithinBounds ==
    call.k >= 1 /\ call.k <= getMaxKSelection(should_use_cuvs(config_))

\* Number of the caller's output buffers that live on the host.
HostOutputs ==
    (IF call.distances = "host" THEN 1 ELSE 0)
      + (IF call.labels = "host" THEN 1 ELSE 0)

\* (invocation, position) pairs at which the implementation read row i.
Handed(i) ==
    { jp \in (1 .. Len(implLog)) \X (1 .. call.n) :
        /\ jp[2] <= Len(implLog[jp[1]].rows)
        /\ implLog[jp[1]].rows[jp[2]] = i }

\* All rows, resp. identifiers, the implementation read, in order.
RECURSIVE AllRows(_)
AllRows(log) == IF log = <<>> THEN <<>> ELSE Head(log).rows \o AllRows(Tail(log))
RECURSIVE AllIds(_)
AllIds(log) == IF log = <<>> THEN <<>> ELSE Head(log).ids \o AllIds(Tail(log))

\* C1: a search on a trained index with n > 0, k within bounds and one of
\* the three supported encodings succeeds on whichever path it takes; every
\* query row is read by exactly one searchImpl_ invocation, which writes its
\* k results to the output row of the same index; n * k pairs are copied
\* back to each host-resident output buffer, and the caller's buffers hold
\* the result of row i in row i (device-resident ones once the queued work
\* has run).
C1_EveryQueryRowSearchedOnce ==
    (/\ Returned /\ call.op = "search" /\ is_trained /\ call.n > 0
     /\ KWithinBounds /\ call.numeric_type \in SupportedTypes /\ call.fail = 0)
    => /\ result = "ok"
       /\ call.path \in {"untiled", "unbuffered", "pipeline"}
       /\ call.distances = "host" => hostDistances = Rows(call.n)
       /\ call.labels = "host" => hostLabels = Rows(call.n)
       /\ copiedBack = HostOutputs * call.n * call.k
       /\ Drained =>
            /\ \A i \in 0 .. call.n - 1 : Cardinality(Handed(i)) = 1
            /\ \A j \in 1 .. Len(implLog) :
                 /\ implLog[j].k = call.k
                 /\ \A p \in 1 .. Len(implLog[j].rows) :
                      /\ implLog[j].distOff + (p - 1) = implLog[j].rows[p]
                      /\ implLog[j].labOff + (p - 1) = implLog[j].rows[p]
            /\ CallerDistances = Rows(call.n)
            /\ CallerLabels = Rows(call.n)

C1_Witness ==
    /\ Returned /\ call.op = "search" /\ call.path = "pipeline"
    /\ result = "ok" /\ Drained /\ Len(implLog) >= 3

\* What sequential unbuffered paging writes for the call's batch.
UnbufferedOutput(c, field) ==
    LET calls == UnbufferedCalls(c.n, c.numeric_type, HostPtr(Rows(c.n)), c)
    IN  WriteAll(Blank(c.n),
                 [j \in 1 .. Len(calls) |-> searchNonPaged_Exec(calls[j], c.k)],
                 field)

\* C2: once an overlapped-pipeline search of a batch of a supported encoding
\* has succeeded and its queued work has run, its outputs equal, row for
\* row, those of sequential unbuffered paging of the same batch.
C2_PipelineEqualsUnbuffered ==
    (/\ Returned /\ call.path = "pipeline" /\ call.fail = 0
     /\ call.numeric_type \in SupportedTypes /\ Drained)
    => /\ result = "ok"
       /\ CallerDistances = UnbufferedOutput(call, "distOff")
       /\ CallerLabels = UnbufferedOutput(call, "labOff")

C2_Witness ==
    /\ Returned /\ call.path = "pipeline" /\ result = "ok" /\ Drained
    /\ call.n = 3 /\ pageSizeInVecs = 2
    /\ UnbufferedBatchSize(call.numeric_type) # pageSizeInVecs

\* C3: every pointer handed to addImpl_ or searchImpl_ is device-resident
\* (the identifiers of an add may be null instead).
C3_OnlyDevicePointers ==
    \A j \in 1 .. Len(issued) :
        /\ issued[j].x = "device"
        /\ issued[j].op = "search" =>
              issued[j].dist = "device" /\ issued[j].lab = "device"
        /\ issued[j].op = "add" => issued[j].ids \in {"device", "null"}

C3_Witness ==
    /\ Returned /\ call.op = "add" /\ call.x = "host" /\ call.ids = "host"
    /\ Len(issued) >= 2

\* C4: a tiled insert hands the implementation the vectors and identifiers
\* of the batch in batch order, exactly as one untiled addPage_ of the whole
\* batch does, every vector with the identifier of its own position, and
\* the total count grows by n.
C4_TiledInsertEqualsUntiled ==
    (Returned /\ call.op = "add" /\ call.path = "tiled" /\ call.fail = 0)
    => LET ids == IdsPointer(call.n, call.ids, generatedIds)
           whole == addPage_Exec([n |-> call.n,
                                  x |-> [loc |-> call.x, rows |-> Rows(call.n)],
                                  ids |-> ids])
       IN  /\ result = "ok"
           /\ AllRows(implLog) = whole.rows
           /\ AllIds(implLog) = whole.ids
           /\ \A j \in 1 .. Len(implLog) :
                 /\ Len(implLog[j].rows) = implLog[j].n
                 /\ ids.loc # "null" =>
                      /\ Len(implLog[j].ids) = implLog[j].n
                      /\ \A p \in 1 .. implLog[j].n :
                           implLog[j].ids[p] = ids.rows[implLog[j].rows[p] + 1]
           /\ ntotal = call.ntotal0 + call.n

C4_Witness ==
    /\ Returned /\ call.op = "add" /\ call.path = "tiled" /\ result = "ok"
    /\ call.ids = "device" /\ Len(implLog) >= 3

\* C5: a successful insert of n vectors leaves the total count at its value
\* at call entry plus n, on the untiled and on the tiled path; and no step
\* of an insert or a search decreases the count.
C5_InsertAddsN ==
    /\ [](Returned /\ call.op = "add" /\ result = "ok"
            => ntotal = call.ntotal0 + call.n)
    /\ [][ntotal' >= ntotal]_vars

C5_Witness ==
    /\ Returned /\ call.op = "add" /\ result = "ok" /\ call.path = "tiled"
    /\ call.ntotal0 > 0 /\ call.n > 1

\* C6: on an untrained index insert, search and assign (k within bounds)
\* fail with NotTrained for every n >= 0, before any device allocation,
\* implementation invocation, identifier generation or output write, and
\* the index metadata is unchanged.
C6_UntrainedFails ==
    /\ []((/\ Returned /\ ~is_trained
           /\ call.op \in {"search", "assign"} => KWithinBounds)
          => /\ result = "NotTrained"
             /\ nAlloc = 0 /\ issued = <<>> /\ implLog = <<>>
             /\ generatedIds = <<>>
             /\ OutputsUntouched /\ copiedBack = 0
             /\ ntotal = call.ntotal0)
    /\ [][~is_trained => UNCHANGED indexVars]_vars

C6_Witness ==
    /\ Returned /\ ~is_trained /\ call.op = "assign" /\ call.n > 0
    /\ KWithinBounds /\ result = "NotTrained"

\* C7: search on a trained index with k zero, negative or above the
\* backend's maximum fails with InvalidK for every n, before a path is
\* chosen: nothing is allocated, invoked or written.
C7_InvalidKFails ==
    (/\ Returned /\ call.op = "search" /\ is_trained
     /\ (call.k <= 0 \/ call.k > getMaxKSelection(should_use_cuvs(config_))))
    => /\ result = "InvalidK"
       /\ call.path = "none"
       /\ nAlloc = 0 /\ issued = <<>> /\ implLog = <<>>
       /\ OutputsUntouched /\ copiedBack = 0

C7_Witness ==
    /\ Returned /\ call.op = "search" /\ is_trained /\ call.k = 2049
    /\ call.n > 0 /\ result = "InvalidK"

\* C8: search with k = 0 on a trained index returns without error, invokes
\* no search step and writes nothing.
C8_ZeroKIsNoOp ==
    (Returned /\ call.op = "search" /\ is_trained /\ call.k = 0)
    => result = "ok" /\ issued = <<>> /\ OutputsUntouched

\* The call had no side effect.
NoSideEffects ==
    /\ generatedIds = <<>> /\ nAlloc = 0
    /\ issued = <<>> /\ implLog = <<>>
    /\ OutputsUntouched /\ copiedBack = 0
    /\ ntotal = call.ntotal0

\* C9 as stated: insert and search with n = 0 return success with no side
\* effects.
C9_EmptyBatchSucceeds ==
    (Returned /\ call.op \in {"add", "search"} /\ call.n = 0)
    => result = "ok" /\ NoSideEffects

\* C9 as amended: insert and search with n = 0 have no side effects and
\* change no metadata; they return success on a trained index (search: for
\* k within bounds), and fail with NotTrained on an untrained index and
\* with InvalidK for k out of bounds.
C9_EmptyBatchNoSideEffects ==
    /\ []((Returned /\ call.op \in {"add", "search"} /\ call.n = 0)
          => /\ NoSideEffects
             /\ result = IF ~is_trained THEN "NotTrained"
                         ELSE IF call.op = "search" /\ ~KWithinBounds
                         THEN "InvalidK"
                         ELSE "ok")
    /\ [][(pc = "idle" /\ pc' = "done" /\ call'.n = 0) => UNCHANGED indexVars]_vars

C9_Witness ==
    /\ Returned /\ call.op = "search" /\ call.n = 0 /\ result = "ok"
    /\ call.distances = "host" /\ hostDistances = <<>>

\* Rows of the pages before the one whose step failed.
RowsBeforeFailure ==
    IF call.path = "pipeline"
    THEN Min(call.n, (call.fail - 1) * pageSizeInVecs)
    ELSE Min(call.n, (call.fail - 1) * UnbufferedBatchSize(call.numeric_type))

PagedFailure ==
    /\ Returned /\ call.path \in {"unbuffered", "pipeline"} /\ call.fail > 0

\* C10 as stated: when a page's step fails in a paged search the call
\* fails, no later page is issued and the caller's output buffers hold no
\* result of any page.
C10_NoPartialOutput ==
    PagedFailure
    => /\ result = "Failure"
       /\ Len(issued) = call.fail
       /\ OutputsUntouched

\* C10 as amended: the call fails, no later page is issued and nothing is
\* copied back to host-resident output buffers; device-resident output
\* buffers are written in place and hold results of pages before the failed
\* one only, each in its own row.
C10_NoPartialHostOutput ==
    PagedFailure
    => /\ result = "Failure"
       /\ Len(issued) = call.fail
       /\ \A j \in 1 .. Len(issued) : issued[j].ok = (j # call.fail)
       /\ Len(implLog) <= call.fail - 1
       /\ copiedBack = 0
       /\ call.distances = "host" => hostDistances = Blank(call.n)
       /\ call.labels = "host" => hostLabels = Blank(call.n)
       /\ \A i \in 1 .. call.n :
            /\ call.distances = "device" =>
                 /\ devDistances[i] \in {NoRes, i - 1}
                 /\ i > RowsBeforeFailure => devDistances[i] = NoRes
                 /\ (Drained /\ i <= RowsBeforeFailure)
                      => devDistances[i] = i - 1
            /\ call.labels = "device" =>
                 /\ devLabels[i] \in {NoRes, i - 1}
                 /\ i > RowsBeforeFailure => devLabels[i] = NoRes
                 /\ (Drained /\ i <= RowsBeforeFailure) => devLabels[i] = i - 1

C10_Witness ==
    /\ PagedFailure /\ call.path = "pipeline" /\ call.fail >= 2
    /\ call.labels = "device" /\ call.distances = "host" /\ Drained
    /\ result = "Failure"

\* C11: an encoding tag other than the three supported ones fails with
\* UnsupportedEncoding at every dispatch site an insert or a search on a
\* trained index (n > 0, k within bounds) reaches, and the implementation is
\* never invoked; no such call is accepted.
C11_UnsupportedTagFails ==
    (/\ Returned /\ call.op \in {"add", "search"} /\ is_trained /\ call.n > 0
     /\ call.numeric_type \notin SupportedTypes
     /\ call.op = "search" => KWithinBounds)
    => result = "UnsupportedEncoding" /\ issued = <<>> /\ implLog = <<>>

\* C12: when insert is given no identifiers and the implementation needs
\* them, the identifier handed to addImpl_ with the vector at batch position
\* i is ntotal at call entry plus i, on the untiled and the tiled path, for
\* every vector handed over (all of them when no tile fails).
C12_GeneratedIdsFromEntryCount ==
    (/\ Returned /\ call.op = "add" /\ call.ids = "null" /\ call.requiresIDs
     /\ call.n > 0 /\ result \in {"ok", "Failure"})
    => /\ generatedIds = [i \in 1 .. call.n |-> call.ntotal0 + (i - 1)]
       /\ \A j \in 1 .. Len(implLog) :
            /\ Len(implLog[j].ids) = Len(implLog[j].rows)
            /\ \A p \in 1 .. Len(implLog[j].rows) :
                 implLog[j].ids[p] = call.ntotal0 + implLog[j].rows[p]
       /\ \A j \in 1 .. Len(issued) : issued[j].ids = "device"
       /\ call.fail = 0 => AllRows(implLog) = Rows(call.n)

C12_Witness ==
    /\ Returned /\ call.op = "add" /\ call.ids = "null" /\ call.requiresIDs
    /\ call.path = "tiled" /\ call.ntotal0 > 0 /\ result = "ok"
    /\ Len(implLog) >= 2

\* What one search of the whole batch writes to an output region.
WholeBatchOutput(c, field) ==
    LET page == SearchPage(0, c.n, [loc |-> c.x, rows |-> Rows(c.n)], c)
    IN  WriteAll(Blank(c.n), <<searchNonPaged_Exec(page, c.k)>>, field)

\* C18: assign fails as search does, with NotTrained or InvalidK, before it
\* reserves its distance buffer; otherwise it reserves one transient device
\* buffer, writes into labels what a search of the same batch writes,
\* copies no distances to the caller, and the transient buffer is gone when
\* the call has returned.
C18_AssignIsSearchLabels ==
    /\ []((Returned /\ call.op = "assign")
          => /\ searchValidate(call.n, call.k) \in {"NotTrained", "InvalidK"}
                  => /\ result = searchValidate(call.n, call.k)
                     /\ nAlloc = 0 /\ issued = <<>> /\ OutputsUntouched
             /\ searchValidate(call.n, call.k) \in {"nothing", "go"}
                  => nAlloc >= 1
             /\ call.distances = "device" /\ hostDistances = <<>>
             /\ copiedBack = IF result = "ok" /\ call.labels = "host"
                             THEN call.n * call.k ELSE 0
             /\ (result = "ok" /\ Drained)
                  => CallerLabels = WholeBatchOutput(call, "labOff"))
    /\ [][(pc = "done" /\ call.op = "assign" /\ pc' = "idle")
            => devDistances' = <<>>]_vars

C18_Witness ==
    /\ Returned /\ call.op = "assign" /\ result = "ok" /\ Drained
    /\ call.path = "pipeline" /\ call.labels = "host" /\ call.n >= 3

\* The sum of the sizes of the add invocations issued.
RECURSIVE IssuedN(_)
IssuedN(log) == IF log = <<>> THEN 0 ELSE Head(log).n + IssuedN(Tail(log))

\* C14: an accepted insert of n > 0 vectors is passed to addImpl_ in exactly
\* one invocation if the alternative backend is eligible (compute capability
\* major >= 7 and the backend requested); otherwise it is tiled if and only
\* if n * d * s > kAddPageSize or n > kAddVecSize, so a batch exactly at
\* either threshold is not tiled; a batch that is not tiled is passed in one
\* invocation, and the invocations together hold n vectors.
C14_InsertPagingDecision ==
    (/\ Returned /\ call.op \in {"add", "addPaged_"} /\ result = "ok"
     /\ call.n > 0)
    => LET s == get_numeric_type_size(call.numeric_type)
           eligible == config_.major >= 7 /\ config_.use_cuvs
           over == \/ call.n * d * s > kAddPageSize
                   \/ call.n > kAddVecSize
       IN  /\ eligible => (call.path = "untiled" /\ Len(issued) = 1)
           /\ ~eligible => (call.path = "tiled" <=> over)
           /\ call.path = "untiled" => Len(issued) = 1
           /\ Len(issued) > 1 => call.path = "tiled"
           /\ call.path \in {"tiled", "untiled"}
           /\ Len(issued) >= 1
           /\ IssuedN(issued) = call.n

C14_Witness ==
    /\ Returned /\ call.op = "addPaged_" /\ result = "ok"
    /\ call.n = 524289 /\ d = 1 /\ Len(issued) = 17

\* The calls that search: search, assign and search_and_reconstruct.
SearchOps == {"search", "assign", "search_and_reconstruct"}

\* C13: a search that passes validation with n > 0 runs one path: the
\* untiled one, in one searchImpl_ invocation of the whole batch, if x is on
\* the device, whatever the size, or if x is on the host and
\* n * d * elementSize is below the paging threshold; a paged one if x is on
\* the host and n * d * elementSize >= the threshold. The threshold is the
\* value last passed to setMinPagingSize, kMinPageSize before the first
\* call, and getMinPagingSize returns it.
C13_SearchPathSelection ==
    /\ minPagedSize_ = lastSetSize
    /\ (Returned /\ call.op = "getMinPagingSize") => retSize = lastSetSize
    /\ (/\ Returned /\ call.op \in SearchOps /\ call.n > 0
        /\ result \notin {"NotTrained", "InvalidK"})
       => LET bytes == call.n * d * get_numeric_type_size(call.numeric_type)
          IN  /\ call.path \in {"untiled", "unbuffered", "pipeline"}
              /\ call.x = "device" => call.path = "untiled"
              /\ (call.x = "host" /\ bytes >= lastSetSize)
                   => call.path \in {"unbuffered", "pipeline"}
              /\ (call.x = "host" /\ bytes < lastSetSize)
                   => call.path = "untiled"
              /\ call.path = "untiled"
                   => Len(issued) = 1 /\ issued[1].n = call.n

C13_Witness ==
    /\ Returned /\ call.op = "search" /\ call.x = "host" /\ call.n = 2
    /\ lastSetSize = 536870912 /\ d = 67108864
    /\ call.path = "pipeline" /\ result = "ok"

\* C15: a search that succeeds with the n, encoding and k of the search the
\* caller last kept the outputs of, with no insert and no copyFrom in
\* between, leaves the same distances and labels in the caller's buffers,
\* whatever path and event timing either call had; and no step of a search
\* changes dimensionality, metric, total count, trained flag or paging
\* threshold.
C15_SearchIdempotent ==
    /\ []((/\ Returned /\ Drained /\ call.op = "search" /\ result = "ok"
           /\ kept.n = call.n /\ kept.numeric_type = call.numeric_type
           /\ kept.k = call.k)
          => /\ CallerDistances = kept.distances
             /\ CallerLabels = kept.labels)
    /\ [][(call.op = "search" \/ call'.op = "search")
            => UNCHANGED <<d, metric_type, metric_arg, ntotal, is_trained,
                           minPagedSize_>>]_vars

C15_Witness ==
    /\ Returned /\ Drained /\ call.op = "search" /\ result = "ok"
    /\ kept.n = call.n /\ kept.k = call.k /\ call.n = 2
    /\ call.path = "pipeline" /\ Len(implLog) = 2
    /\ call.distances = "host" /\ kept.distances = hostDistances

\* C16 as stated: no operation changes the dimensionality.
C16_DimensionalityImmutable == [][d' = d]_vars

\* C16 as amended: insert, search, assign, search_and_reconstruct, copyTo,
\* setMinPagingSize and the other operations leave the dimensionality
\* unchanged; copyFrom sets it to the dimensionality of its argument.
C16_OnlyCopyFromSetsDimensionality ==
    /\ [][d' # d => (pc = "idle" /\ call'.op = "copyFrom")]_vars
    /\ [][(pc = "idle" /\ call'.op = "copyFrom") => d' = mirror.d]_vars

C16_Witness ==
    /\ Returned /\ call.op = "copyFrom" /\ d = 33554432 /\ d \notin Dims

\* C17: copyFrom sets the index's five fields to its argument's and leaves
\* the argument alone, copyTo sets the argument's five fields to the
\* index's and leaves the index alone; so after copyTo(m) a copyFrom(m)
\* changes no metadata, and after copyFrom(m) a copyTo(m') makes m' equal
\* m. Neither changes the paging threshold or the configuration, and
\* neither allocates, transfers or invokes the implementation.
C17_MetadataExchange ==
    /\ []((Returned /\ call.op = "copyTo") => copyFrom(mirror) = Meta)
    /\ []((Returned /\ call.op = "copyFrom")
            => \A m \in Mirrors : copyTo(m) = mirror)
    /\ []((Returned /\ call.op \in {"copyFrom", "copyTo"})
            => /\ result = "ok" /\ nAlloc = 0
               /\ issued = <<>> /\ implLog = <<>> /\ Drained)
    /\ [][(pc = "idle" /\ call'.op = "copyFrom")
            => /\ Meta' = mirror /\ mirror' = mirror
               /\ UNCHANGED <<minPagedSize_, config_>>]_vars
    /\ [][(pc = "idle" /\ call'.op = "copyTo")
            => /\ mirror' = Meta /\ Meta' = Meta
               /\ UNCHANGED <<minPagedSize_, config_>>]_vars

C17_Witness ==
    /\ Returned /\ call.op = "copyTo" /\ mirror = Meta
    /\ ntotal = 3 /\ metric_type = "METRIC_INNER_PRODUCT"
    /\ minPagedSize_ = 134217728

\* C19: reconstruct_batch is invoked at most once, only after the search of
\* search_and_reconstruct has returned successfully, for n * k vectors and
\* with the labels that search wrote; it is not invoked when the search
\* failed; and the call ends as the reconstruction does.
C19_ReconstructAfterSearch ==
    /\ [](reconLog # <<>>
            => /\ Returned /\ call.op = "search_and_reconstruct"
               /\ Len(reconLog) = 1
               /\ reconLog[1].n = call.n * call.k
               /\ reconLog[1].labels = WholeBatchOutput(call, "labOff")
               /\ reconLog[1].labels = CallerLabels
               /\ \A j \in 1 .. Len(issued) : issued[j].ok
               /\ result = IF reconLog[1].ok THEN "ok"
                           ELSE "ReconstructFailure")
    /\ []((/\ Returned /\ call.op = "search_and_reconstruct"
           /\ result \in {"NotTrained", "InvalidK", "Failure"})
          => reconLog = <<>>)
    /\ [][reconLog' # reconLog /\ reconLog' # <<>>
            => /\ pc = "done" /\ result = "ok"
               /\ call.op = "search_and_reconstruct"
               /\ UNCHANGED <<call, outVars, implLog, issued>>]_vars

C19_Witness ==
    /\ Returned /\ call.op = "search_and_reconstruct"
    /\ call.path = "pipeline" /\ call.n = 2
    /\ reconLog # <<>> /\ result = "ReconstructFailure"

\* C20: compute_residual and compute_residual_n fail with NotImplemented
\* whatever the state of the index, and change nothing.
C20_ResidualNotImplemented ==
    /\ []((Returned /\ call.op \in {"compute_residual", "compute_residual_n"})
          => /\ result = "NotImplemented"
             /\ nAlloc = 0 /\ issued = <<>> /\ implLog = <<>>)
    /\ [][(pc = "idle"
             /\ call'.op \in {"compute_residual", "compute_residual_n"})
            => UNCHANGED <<indexVars, metric_type, metric_arg, mirror,
                           lastSetSize, kept>>]_vars

C20_Witness ==
    /\ Returned /\ call.op = "compute_residual_n" /\ is_trained
    /\ ntotal = 3 /\ result = "NotImplemented"

\* ------------------------------------------------ the pipeline's ordering
\* The call in progress runs the overlapped pipeline.
InPipeline == call.path = "pipeline" /\ pc \in {"loop", "copyback", "done"}

\* The caller's rows of the page of num vectors starting at vector cur.
PageRows(cur, num) == SubSeq(Rows(call.n), cur + 1, cur + num)

\* The events that mark the end of the transfer and of the search of the
\* page starting at vector cur.
CopyDone(cur) == [kind |-> "copy", page |-> cur]
ExecDone(cur) == [kind |-> "exec", page |-> cur]

\* The host has run stage st for the page starting at cur with buffer slot.
HostRan(st, cur, slot) ==
    \E j \in 1 .. Len(pipeLog) :
        /\ pipeLog[j].stage = st /\ pipeLog[j].cur = cur
        /\ pipeLog[j].slot = slot

\* C21: whenever the default stream starts the search of a page, the
\* pinned -> GPU copy of that page, into the GPU buffer the search reads,
\* has completed, and the rows the search reads are the rows of its own
\* page; this under every interleaving of the host and the two streams.
C21_ComputeAfterOwnTransfer ==
    [][(InPipeline /\ defaultStream # <<>> /\ implLog' # implLog)
         => LET o == Head(defaultStream) IN
            /\ o.op = "search"
            /\ HostRan(2, o.off, o.slot)
            /\ CopyDone(o.off) \in firedEvents
            /\ \A j \in 1 .. Len(copyStream) :
                  copyStream[j].ev # CopyDone(o.off)
            /\ Take(bufGpus[o.slot + 1], o.num) = PageRows(o.off, o.num)
            /\ implLog' = Append(implLog,
                  Exec("search", o.num, PageRows(o.off, o.num), <<>>,
                       o.off, o.off, o.k))]_vars

C21_Witness ==
    /\ InPipeline /\ pc = "loop" /\ pageSizeInVecs = 1 /\ call.n = 4
    /\ Len(implLog) = 3 /\ implLog[3].rows = <<2>>
    /\ copyStream # <<>>

\* A pinned -> GPU copy out of pinned buffer slot is queued and has not run.
TransferPending(slot) ==
    \E j \in 1 .. Len(copyStream) :
        copyStream[j].op = "memcpy" /\ copyStream[j].slot = slot

\* C22: the host copies a page into a pinned buffer only when no pinned ->
\* GPU copy out of that buffer is queued or running; for the third page on
\* the copy of the last page that used the buffer (two pages before) has
\* completed, which is the one event the host waits for; the copy-in of the
\* first two pages waits for nothing.
C22_NoCopyInOverPendingTransfer ==
    /\ []((InPipeline /\ pc = "loop" /\ stage = 1 /\ cur1 < call.n)
            => IF cur1 < 2 * pageSizeInVecs
               THEN /\ eventPinnedCopyDone[CopyInSlot + 1] = NoEvent
                    /\ CopyInMayProceed(CopyInSlot)
               ELSE /\ eventPinnedCopyDone[CopyInSlot + 1]
                         = CopyDone(cur1 - 2 * pageSizeInVecs)
                    /\ HostRan(2, cur1 - 2 * pageSizeInVecs, CopyInSlot))
    /\ [][(InPipeline /\ pc = "loop" /\ cur1' > cur1)
            => /\ ~TransferPending(CopyInSlot)
               /\ cur1 >= 2 * pageSizeInVecs
                    => CopyDone(cur1 - 2 * pageSizeInVecs) \in firedEvents
               /\ bufPinned'[CopyInSlot + 1]
                    = Overwrite(bufPinned[CopyInSlot + 1],
                                PageRows(cur1, cur1' - cur1))
               /\ bufPinned'[Flip(CopyInSlot) + 1]
                    = bufPinned[Flip(CopyInSlot) + 1]]_vars

C22_Witness ==
    /\ InPipeline /\ pc = "loop" /\ pageSizeInVecs = 1 /\ call.n = 4
    /\ HostRan(1, 2, 0) /\ bufPinned[1] = <<2>>
    /\ TransferPending(1)

\* A search reading GPU buffer slot is queued and has not run.
ComputePending(slot) ==
    {defaultStream[j].off : j \in {i \in 1 .. Len(defaultStream) :
        defaultStream[i].op = "search" /\ defaultStream[i].slot = slot}}

\* C23: whenever the copy stream starts the pinned -> GPU copy of a page, no
\* search of an earlier page reading the same GPU buffer is queued or
\* running; from the third page on, the search of the page two before, the
\* last to use the buffer, has completed. The only search that may be
\* queued on the buffer is the one of the page being copied, which waits
\* for this copy.
C23_NoTransferOverPendingCompute ==
    [][(InPipeline /\ copyStream # <<>> /\ copyStream' = Tail(copyStream)
          /\ Head(copyStream).op = "memcpy")
         => LET o == Head(copyStream)
                cur == o.ev.page
            IN
            /\ HostRan(2, cur, o.slot)
            /\ ComputePending(o.slot) \subseteq {cur}
            /\ cur >= 2 * pageSizeInVecs
                 => /\ ExecDone(cur - 2 * pageSizeInVecs) \in firedEvents
                    /\ HostRan(3, cur - 2 * pageSizeInVecs, o.slot)
            /\ Take(bufGpus'[o.slot + 1], o.num) = PageRows(cur, o.num)
            /\ bufGpus'[Flip(o.slot) + 1] = bufGpus[Flip(o.slot) + 1]]_vars

C23_Witness ==
    /\ InPipeline /\ pageSizeInVecs = 1 /\ call.n = 4
    /\ bufGpus[1] = <<2>> /\ ComputePending(0) = {2}
    /\ ComputePending(1) = {1}

\* The page (by its first vector) each stage is at work on, if any: the
\* host is at the copy-in of stage 1; a stream has the copy, or the search,
\* at its head with nothing left to wait for.
CopyInAt == IF pc = "loop" /\ stage = 1 /\ cur1 < call.n THEN {cur1} ELSE {}
TransferAt ==
    IF copyStream # <<>> /\ Head(copyStream).op = "memcpy"
         /\ Ready(Head(copyStream))
    THEN {Head(copyStream).ev.page} ELSE {}
ComputeAt ==
    IF defaultStream # <<>> /\ Head(defaultStream).op = "search"
         /\ Ready(Head(defaultStream))
    THEN {Head(defaultStream).off} ELSE {}

\* C24: at every instant of a pipeline invocation the pages the three
\* stages are at work on are pairwise different: the host copies in a page
\* later than the one being transferred, which is later than the one being
\* searched; so at most three pages are at work at once, one per stage.
C24_StagesOnDifferentPages ==
    InPipeline =>
        /\ \A a \in CopyInAt, b \in TransferAt : a > b
        /\ \A b \in TransferAt, e \in ComputeAt : b > e
        /\ \A a \in CopyInAt, e \in ComputeAt : a > e
        /\ Cardinality(CopyInAt \cup TransferAt \cup ComputeAt) <= 3

\* Three pages at work at once: depth 3.
C24_Witness ==
    /\ InPipeline /\ pageSizeInVecs = 1 /\ call.n = 4
    /\ CopyInAt = {3} /\ TransferAt = {2} /\ ComputeAt = {1}

\* The runs of one stage, in the order the host made them.
StageRuns(st) == SelectSeq(pipeLog, LAMBDA e : e.stage = st)

\* The place of a stage in an iteration: transfer, compute, copy-in.
StageRank(st) == CASE st = 2 -> 1 [] st = 3 -> 2 [] st = 1 -> 3

\* The loop has ended by its test, not by an exception.
LoopExited == call.path = "pipeline" /\ (pc = "copyback" \/ result = "ok")

\* C25: the loop of the pipeline ends; it ends, unless a search throws,
\* after ceil(n / pageSizeInVecs) + 1 iterations with cur1 = cur2 = cur3 = n;
\* within an iteration the stages run in the order transfer, compute,
\* copy-in; and by then each stage has run once for every page, in ascending
\* page order, on the page's vectors.
C25_PipelineTerminates ==
    /\ (pc = "loop") ~> (pc # "loop")
    /\ [](InPipeline =>
            /\ iter <= NumPages + 1
            /\ \A j \in 1 .. Len(pipeLog) - 1 :
                  \/ pipeLog[j].iter < pipeLog[j + 1].iter
                  \/ /\ pipeLog[j].iter = pipeLog[j + 1].iter
                     /\ StageRank(pipeLog[j].stage)
                          < StageRank(pipeLog[j + 1].stage))
    /\ [](LoopExited =>
            /\ iter = NumPages + 1
            /\ cur1 = call.n /\ cur2 = call.n /\ cur3 = call.n
            /\ \A st \in {1, 2, 3} :
                  /\ Len(StageRuns(st)) = NumPages
                  /\ \A j \in 1 .. NumPages :
                        /\ StageRuns(st)[j].cur = (j - 1) * pageSizeInVecs
                        /\ StageRuns(st)[j].num =
                              Min(pageSizeInVecs,
                                  call.n - (j - 1) * pageSizeInVecs)
                        /\ StageRuns(st)[j].iter =
                              IF st = 1 THEN j ELSE j + 1)

C25_Witness ==
    /\ LoopExited /\ pc = "copyback" /\ call.n = 3 /\ pageSizeInVecs = 2
    /\ iter = 3 /\ Len(pipeLog) = 6

\* A search that went to searchFromCpuPaged_ has returned.
PagedSearchReturned ==
    /\ Returned /\ call.op = "search"
    /\ call.path \in {"pipeline", "unbuffered"}

\* ceil(a / b)
CeilDiv(a, b) == (a + b - 1) \div b

\* C26: in a paged search with pinned capacity C the pipeline's page is the
\* largest number q of vectors with q * s * d <= floor(C / 2), and every
\* page queued holds min(q, vectors left) vectors; the pipeline is used
\* exactly when pinned memory is present and q >= 1, the unbuffered loop
\* otherwise; the unbuffered page is a power of two of at least one vector,
\* above kNonPinnedPageSize / (s * d), also when one vector is larger than
\* kNonPinnedPageSize; so the unbuffered loop makes ceil(n / page) calls of
\* at least one vector each.
C26_PageSizeDerivation ==
    PagedSearchReturned =>
        LET C == call.pinnedAlloc.second
            sd == get_numeric_type_size(call.numeric_type) * d
            half == C \div 2
            q == pageSizeInVecs
            B == UnbufferedBatchSize(call.numeric_type)
        IN
        /\ 2 * half <= C /\ C <= 2 * half + 1
        /\ q >= 0 /\ q * sd <= half /\ half - q * sd < sd
        /\ call.path = "pipeline" <=> (call.pinnedAlloc.first /\ q >= 1)
        /\ call.path = "unbuffered" <=> (~call.pinnedAlloc.first \/ q < 1)
        /\ call.path = "pipeline"
             => \A j \in 1 .. Len(issued) :
                  /\ issued[j].off = (j - 1) * q
                  /\ issued[j].n = Min(q, call.n - (j - 1) * q)
        /\ call.path = "unbuffered"
             => /\ B >= 1 /\ isPowerOf2(B)
                /\ B > kNonPinnedPageSize \div sd
                /\ B <= 2 * Max(kNonPinnedPageSize \div sd, 1)
                /\ Len(issued) =
                      IF call.fail = 0 THEN CeilDiv(call.n, B) ELSE call.fail
                /\ \A j \in 1 .. Len(issued) :
                      /\ issued[j].off = (j - 1) * B
                      /\ issued[j].n = Min(B, call.n - (j - 1) * B)
                      /\ issued[j].n >= 1

\* One vector larger than kNonPinnedPageSize and than half the pinned
\* memory there is: the unbuffered loop pages by two vectors.
C26_Witness ==
    /\ PagedSearchReturned /\ call.path = "unbuffered" /\ result = "ok"
    /\ d = 134217728 /\ call.numeric_type = "Float32" /\ call.n = 3
    /\ call.pinnedAlloc = [first |-> TRUE, second |-> 536870912]
    /\ Len(issued) = 2 /\ issued[2].n = 1

\* C27: a tiled insert of n vectors uses tiles of
\* min(n, max(1, kAddPageSize / (d * s)), kSearchVecSize) vectors, at least
\* one also when a vector is larger than kAddPageSize; addPage_ is called
\* ceil(n / tileSize) times, for the tiles that start at vectors 0,
\* tileSize, 2 * tileSize, ..., each of tileSize vectors but the last, which
\* holds n mod tileSize vectors, or tileSize when that is 0; the tiles follow
\* one another without gap or overlap and end at vector n - 1.
C27_InsertTileSizing ==
    (Returned /\ call.op = "addPaged_" /\ call.path = "tiled")
    => LET s == get_numeric_type_size(call.numeric_type)
           tileSize == Min(Min(call.n, Max(1, kAddPageSize \div (d * s))),
                           kSearchVecSize)
           count == CeilDiv(call.n, tileSize)
           rest == call.n % tileSize
       IN  /\ tileSize >= 1
           /\ Len(issued) = count /\ Len(implLog) = count
           /\ \A j \in 1 .. count :
                 /\ implLog[j].first = (j - 1) * tileSize
                 /\ implLog[j].n =
                       IF j < count \/ rest = 0 THEN tileSize ELSE rest
                 /\ issued[j].n = implLog[j].n
                 /\ j < count => implLog[j + 1].first = implLog[j].last + 1
           /\ implLog[1].first = 0
           /\ implLog[count].last = call.n - 1

\* Three vectors of 512 MiB each, twice kAddPageSize: three tiles of one.
C27_Witness ==
    /\ Returned /\ call.op = "addPaged_" /\ call.path = "tiled"
    /\ d = 134217728 /\ call.numeric_type = "Float32" /\ call.n = 3
    /\ Len(issued) = 3 /\ implLog[3].first = 2 /\ implLog[3].n = 1

\* C28: when addImpl_ throws on tile j (the call.fail-th, j = call.fail - 1)
\* of a tiled insert, the insert fails, addImpl_ was entered for tiles 0 .. j
\* and for no later one, each once; the vectors of tiles 0 .. j-1 stay
\* added, in batch order, and the total count has grown by their number: it
\* is the count at entry if and only if j = 0.
C28_TileFailureKeepsEarlierTiles ==
    (Returned /\ call.op = "add" /\ call.path = "tiled" /\ call.fail > 0)
    => LET j == call.fail - 1
           added == AllRows(implLog)
       IN  /\ result = "Failure"
           /\ Len(issued) = j + 1
           /\ \A i \in 1 .. Len(issued) : issued[i].ok <=> i <= j
           /\ Len(implLog) = j
           /\ added = Take(Rows(call.n), Len(added))
           /\ Len(added) = IssuedN(Take(issued, j))
           /\ Len(added) >= j
           /\ ntotal = call.ntotal0 + Len(added)
           /\ ntotal = call.ntotal0 <=> j = 0

C28_Witness ==
    /\ Returned /\ call.op = "add" /\ call.path = "tiled" /\ call.fail = 3
    /\ call.n = 4 /\ result = "Failure" /\ call.ntotal0 = 1 /\ ntotal = 3

\* C29: in a pipeline invocation with pinned capacity C the two pinned
\* buffers, of pageSizeInVecs * d * s bytes each, follow one another from
\* the start of the pinned allocation and end within it; every copy-in and
\* every transfer moves the bytes of its page's vectors, at most
\* pageSizeInVecs * d * s, from the start of its buffer, so it stays within
\* the buffer, and no buffer of the model ever holds more than a page; and
\* the page p-th from 0 uses buffer p mod 2 at its copy-in, its transfer and
\* its search.
C29_PipelineBufferLayout ==
    InPipeline =>
        LET C == call.pinnedAlloc.second
            sd == get_numeric_type_size(call.numeric_type) * d
            q == pageSizeInVecs
        IN
        /\ q >= 1
        /\ PinnedOffset(0) = 0 /\ PinnedOffset(1) = q * sd
        /\ PinnedOffset(1) + q * sd <= C
        /\ \A i \in {1, 2} :
              /\ Len(bufPinned[i]) = Min(q, call.n)
              /\ Len(bufGpus[i]) = Min(q, call.n)
        /\ \A j \in 1 .. Len(pipeLog) :
              LET e == pipeLog[j] IN
              /\ e.slot = (e.cur \div q) % 2
              /\ e.cur % q = 0
              /\ e.num >= 1 /\ e.num <= q
              /\ e.at = PinnedOffset(e.slot)
              /\ e.stage \in {1, 2} =>
                    /\ e.bytes = e.num * sd
                    /\ e.bytes <= q * sd
                    /\ e.at + e.bytes <= PinnedOffset(e.slot + 1)
                    /\ e.at + e.bytes <= C
        /\ \A j \in 1 .. Len(copyStream) :
              copyStream[j].op = "memcpy"
                => copyStream[j].slot = (copyStream[j].ev.page \div q) % 2
        /\ \A j \in 1 .. Len(defaultStream) :
              defaultStream[j].op = "search"
                => defaultStream[j].slot = (defaultStream[j].off \div q) % 2

\* Pages of one vector of three bytes in a pinned allocation of 9 bytes
\* (three of them unused): the fourth page has used buffer 1 in all stages.
C29_Witness ==
    /\ InPipeline /\ pc = "copyback" /\ d = 3 /\ call.n = 4
    /\ call.numeric_type = "Int8" /\ call.pinnedAlloc.second = 9
    /\ HostRan(1, 3, 1) /\ HostRan(2, 3, 1) /\ HostRan(3, 3, 1)
    /\ HostRan(1, 2, 0) /\ HostRan(2, 2, 0) /\ HostRan(3, 2, 0)

====
